---- MODULE Spec2Model ----
(***************************************************************************)
(* A model of the Projectron backend: the sibling order field maintained   *)
(* by the milestone / task / subtask CRUD endpoints, the PlanProgress      *)
(* tracker driven by the background plan-generation job, and the           *)
(* fallback-chain executor used by every pipeline stage.                   *)
(***************************************************************************)
EXTENDS Integers, Sequences, FiniteSets, TLC

(***************************************************************************)
(* Bounds of the model.                                                    *)
(***************************************************************************)
\* number of distinct entity ids that may exist in one sibling set
MaxEntities == 3
\* largest order value a request may carry and an append may produce
MaxOrder == 3
\* longest fallback list handed to the executor
MaxFallbacks == 3

VARIABLES
    kind,       \* which sibling collection is observed: milestones of the
                \* project, tasks of a milestone or subtasks of a task
    siblings,   \* the observed collection: entity id -> value of its order field
    lastOp,     \* the last CRUD request on the collection and its response
    progress,   \* the persisted PlanProgress document of the job (or none)
    pc,         \* position of generate_plan_background
    plan,       \* stage outputs accumulated by the pipeline graph
    lastExc,    \* the exception caught by generate_plan_background, if any
    chain,      \* executor input: <<primary>> \o fallbacks
    outcome,    \* executor result for chain (or not yet run)
    user,       \* the rate-limit fields of the requesting User document
    now,        \* the wall clock, in ticks
    ledger,     \* accepted generate-plan requests: in total, this clock hour
    lastReq,    \* the last generate-plan request and its response
    tree,       \* status fields of one milestone, its tasks and the
                \* subtasks of its first task
    lastUpd,    \* the last status update request and the tree before it
    gen,        \* the GlobalDiagramGenerator singleton (circuit breaker)
    clock,      \* time.time(), in seconds
    watch,      \* what an observer of the renderer calls has counted
    lastCall,   \* the last renderer call: what it met and what it did
    wf,         \* generate_sequence_diagram: position, loop counter, result
    req,        \* concurrent diagram requests: where each one's call stands
    running,    \* worker threads now executing against the browser session
    project,    \* one Project document: owner, collaborators, last writer
    lastAcc,    \* the last request addressing the project and its response
    trackers,   \* the plan_progress collection: task_id -> PlanProgress
    lastLookup, \* the last status lookup and its response
    mat,        \* one call of create_or_update_project_from_plan: its
                \* position, its locals and the plan entries read so far
    db,         \* the documents of the project the call persists
    stored,     \* the rate-limit fields of the User document in the store
    rq,         \* two generate-plan requests of that user: position, the
                \* User object each one loaded, what it saw, its response
    workers     \* the server processes that serve the two requests

orderVars == <<kind, siblings, lastOp>>
jobVars == <<progress, pc, plan, lastExc>>
execVars == <<chain, outcome>>
rateVars == <<user, now, ledger, lastReq>>
\* the variables of the parts after the rate limit
treeVars == <<tree, lastUpd>>
breakerVars == <<gen, clock, watch, lastCall>>
sessVars == <<req, running>>
accessVars == <<project, lastAcc>>
statusVars == <<trackers, lastLookup>>
\* the variables of the parts after the access checks
matVars == <<mat, db>>
raceVars == <<stored, rq, workers>>
moreVars == <<statusVars, matVars, raceVars>>
laterVars == <<treeVars, breakerVars, wf, sessVars, accessVars, moreVars>>
\* the variables the CRUD, executor and job steps never touch
extVars == <<rateVars, laterVars>>
vars == <<kind, siblings, lastOp, progress, pc, plan, lastExc, chain, outcome,
          user, now, ledger, lastReq, tree, lastUpd,
          gen, clock, watch, lastCall, wf, req, running, project, lastAcc,
          trackers, lastLookup, mat, db, stored, rq, workers>>

\* an id as the code holds it: an ObjectId, or the string str() makes of
\* it.  An ObjectId is never equal to a string.
Oid(n) == [type |-> "ObjectId", value |-> n]
Str(id) == [type |-> "str", value |-> id.value]
NoUser == Oid(0)

(***************************************************************************)
(* Part 1.  The order field of sibling entities (CRUD endpoints).          *)
(***************************************************************************)
Kinds == {"milestone", "task", "subtask"}
Ids == 1..MaxEntities
\* order values a request body may carry (IntField accepts any integer)
ReqOrders == (0 - 1)..MaxOrder
\* a request body, reduced to its 'order' key: present or not, and its value
Bodies == {[has_order |-> FALSE, order |-> 0]}
            \cup {[has_order |-> TRUE, order |-> p] : p \in ReqOrders}

Orders(sibs) == {sibs[i] : i \in DOMAIN sibs}

SetMax(S) == CHOOSE m \in S : \A x \in S : x <= m

\* "Determine the highest current order value": 0 for an empty collection,
\* otherwise max(order) + 1
max_order(sibs) ==
    IF DOMAIN sibs = {} THEN 0 ELSE SetMax(Orders(sibs)) + 1

\* Milestone.meta declares a unique index on (project_id, order); Task and
\* Subtask declare no index on order.
HasUniqueOrderIndex(k) == k = "milestone"

\* Document.save() of entity id with order o: rejected (NotUniqueError) when
\* the index is unique and another document of the parent already has o.
SaveRejected(k, sibs, id, o) ==
    /\ HasUniqueOrderIndex(k)
    /\ \E j \in DOMAIN sibs : j # id /\ sibs[j] = o

\* POST .../{milestones|tasks|subtasks}: the constructor call receives
\* order=body.get('order', max_order) AND **body, so a body that carries an
\* 'order' key passes the keyword twice and the call raises TypeError before
\* anything is saved (HTTP 500).  Without the key the entity is appended.
create_entity(k, sibs, id, body) ==
    IF body.has_order
    THEN [code |-> 500, sibs |-> sibs]
    ELSE IF SaveRejected(k, sibs, id, max_order(sibs))
         THEN [code |-> 500, sibs |-> sibs]
         ELSE [code |-> 201, sibs |-> (id :> max_order(sibs)) @@ sibs]

\* mutant: the update makes room at the target position by shifting every
\* other sibling at or above it
update_entity_shifts(k, sibs, id, body) ==
    IF id \notin DOMAIN sibs
    THEN [code |-> 404, sibs |-> sibs]
    ELSE IF ~body.has_order
         THEN [code |-> 200, sibs |-> sibs]
         ELSE [code |-> 200,
               sibs |-> [j \in DOMAIN sibs |->
                           IF j = id THEN body.order
                           ELSE IF sibs[j] >= body.order THEN sibs[j] + 1
                           ELSE sibs[j]]]

\* PUT .../{id}: every key of the body is setattr'ed on the document, which
\* is then saved; no sibling is touched and the value is not clamped.
update_entity(k, sibs, id, body) ==
    IF id \notin DOMAIN sibs
    THEN [code |-> 404, sibs |-> sibs]
    ELSE IF ~body.has_order
         THEN [code |-> 200, sibs |-> sibs]
         ELSE IF SaveRejected(k, sibs, id, body.order)
              THEN [code |-> 500, sibs |-> sibs]
              ELSE [code |-> 200, sibs |-> [sibs EXCEPT ![id] = body.order]]

\* DELETE .../{id}: the document (and its descendants) is deleted; no
\* sibling is touched.
delete_entity(k, sibs, id) ==
    IF id \notin DOMAIN sibs
    THEN [code |-> 404, sibs |-> sibs]
    ELSE [code |-> 200, sibs |-> [j \in (DOMAIN sibs) \ {id} |-> sibs[j]]]

NoBody == [has_order |-> FALSE, order |-> 0]

\* no request was made yet
NoOp == [op |-> "none", id |-> 0, body |-> NoBody, before |-> <<>>, code |-> 0]

Respond(op, id, body, r) ==
    /\ siblings' = r.sibs
    /\ lastOp' = [op |-> op, id |-> id, body |-> body,
                  before |-> siblings, code |-> r.code]
    /\ UNCHANGED <<kind, progress, pc, plan, lastExc, chain, outcome, extVars>>

Create(k) ==
    /\ kind = k
    /\ \E id \in Ids \ DOMAIN siblings, body \in Bodies :
          /\ max_order(siblings) <= MaxOrder
          /\ Respond("create", id, body, create_entity(k, siblings, id, body))

Update(k) ==
    /\ kind = k
    /\ \E id \in Ids, body \in Bodies :
          Respond("update", id, body, update_entity(k, siblings, id, body))

Delete(k) ==
    /\ kind = k
    /\ \E id \in Ids :
          Respond("delete", id, NoBody, delete_entity(k, siblings, id))

create_milestone == Create("milestone")
update_milestone == Update("milestone")
delete_milestone == Delete("milestone")
create_task == Create("task")
update_task == Update("task")
delete_task == Delete("task")
create_subtask == Create("subtask")
update_subtask == Update("subtask")
delete_subtask == Delete("subtask")

(***************************************************************************)
(* Part 2.  The fallback-chain executor.                                   *)
(*                                                                         *)
(* A generator is described by what its call does: it raises, it returns   *)
(* an empty/null result or it returns a valid structured result; and by    *)
(* whether its model identifier contains "gemini".  chain[1] is the        *)
(* primary generator, chain[2..] the fallback list in order.               *)
(***************************************************************************)
Outs == {"valid", "empty", "raise"}
Generators == [gemini : BOOLEAN, out : Outs]
Chains == UNION {[1..n -> Generators] : n \in 1..(MaxFallbacks + 1)}

NotRun == [state |-> "idle", fn |-> "none", by |-> 0, value |-> "none",
           error |-> "none", error_by |-> 0, calls |-> <<>>]

Returned(fn, i, v, calls) ==
    [state |-> "returned", fn |-> fn, by |-> i, value |-> v,
     error |-> "none", error_by |-> 0, calls |-> calls]

\* the exception of generator i itself leaves the executor
RaisedOwn(fn, i, calls) ==
    [state |-> "raised", fn |-> fn, by |-> 0, value |-> "none",
     error |-> "generator_error", error_by |-> i, calls |-> calls]

\* RuntimeError("All models failed")
RaisedAllFailed(fn, calls) ==
    [state |-> "raised", fn |-> fn, by |-> 0, value |-> "none",
     error |-> "All models failed", error_by |-> 0, calls |-> calls]

\* the prompt a fallback of execute_with_fallbacks receives: the schema
\* reminder is appended for a generator whose model name contains "gemini"
FallbackPrompt(g) == IF g.gemini THEN "gemini_prompt" ELSE "prompt"

\* mutant: the loop gives up at the first fallback that raises
plan_fallback_loop_first_error(ch, i, calls) ==
    IF i > Len(ch)
    THEN RaisedAllFailed("execute_with_fallbacks", calls)
    ELSE LET done == Append(calls, [gen |-> i, prompt |-> FallbackPrompt(ch[i])])
         IN IF ch[i].out = "raise"
            THEN RaisedOwn("execute_with_fallbacks", i, done)
            ELSE Returned("execute_with_fallbacks", i, ch[i].out, done)

\* mutant: after the last fallback the terminal error is raised instead of
\* the fallback's own
RECURSIVE plan_fallback_loop_terminal(_, _, _)
plan_fallback_loop_terminal(ch, i, calls) ==
    IF i > Len(ch)
    THEN RaisedAllFailed("execute_with_fallbacks", calls)
    ELSE LET done == Append(calls, [gen |-> i, prompt |-> FallbackPrompt(ch[i])])
         IN IF ch[i].out = "raise"
            THEN plan_fallback_loop_terminal(ch, i + 1, done)
            ELSE Returned("execute_with_fallbacks", i, ch[i].out, done)

\* for i, fallback_llm in enumerate(fallback_llms): the result of the call
\* is returned as it is; an exception of the last fallback is re-raised
RECURSIVE plan_fallback_loop(_, _, _)
plan_fallback_loop(ch, i, calls) ==
    IF i > Len(ch)
    THEN RaisedAllFailed("execute_with_fallbacks", calls)
    ELSE LET done == Append(calls, [gen |-> i, prompt |-> FallbackPrompt(ch[i])])
         IN IF ch[i].out = "raise"
            THEN IF i = Len(ch)
                 THEN RaisedOwn("execute_with_fallbacks", i, done)
                 ELSE plan_fallback_loop(ch, i + 1, done)
            ELSE Returned("execute_with_fallbacks", i, ch[i].out, done)

\* mutant: the primary's result is not returned and the fallbacks run anyway
execute_with_fallbacks_no_return(ch) ==
    plan_fallback_loop(ch, 2, <<[gen |-> 1, prompt |-> "prompt"]>>)

\* ai_plan_service.execute_with_fallbacks: the primary is called with the
\* plain prompt (both branches of the gemini test do the same); an empty
\* result of the primary is turned into ValueError and handled like an
\* exception of the primary.
execute_with_fallbacks(ch) ==
    LET first == <<[gen |-> 1, prompt |-> "prompt"]>>
    IN IF ch[1].out = "valid"
       THEN Returned("execute_with_fallbacks", 1, "valid", first)
       ELSE plan_fallback_loop(ch, 2, first)

RECURSIVE llm_fallback_loop(_, _, _)
llm_fallback_loop(ch, i, calls) ==
    IF i > Len(ch)
    THEN RaisedAllFailed("execute_llm_with_fallbacks", calls)
    ELSE LET done == Append(calls, [gen |-> i, prompt |-> "messages"])
         IN IF ch[i].out = "raise"
            THEN IF i = Len(ch)
                 THEN RaisedOwn("execute_llm_with_fallbacks", i, done)
                 ELSE llm_fallback_loop(ch, i + 1, done)
            ELSE Returned("execute_llm_with_fallbacks", i, ch[i].out, done)

\* sequence_diagram_service.execute_llm_with_fallbacks: the same chain
\* without a structured-output contract; the primary's result is returned
\* without an emptiness test.
execute_llm_with_fallbacks(ch) ==
    LET first == <<[gen |-> 1, prompt |-> "messages"]>>
    IN IF ch[1].out = "raise"
       THEN llm_fallback_loop(ch, 2, first)
       ELSE Returned("execute_llm_with_fallbacks", 1, ch[1].out, first)

RunPlanExecutor ==
    /\ chain # <<>>
    /\ outcome.state = "idle"
    /\ outcome' = execute_with_fallbacks(chain)
    /\ UNCHANGED <<kind, siblings, lastOp, progress, pc, plan, lastExc, chain, extVars>>

RunDiagramExecutor ==
    /\ chain # <<>>
    /\ outcome.state = "idle"
    /\ outcome' = execute_llm_with_fallbacks(chain)
    /\ UNCHANGED <<kind, siblings, lastOp, progress, pc, plan, lastExc, chain, extVars>>

(***************************************************************************)
(* Part 3.  The PlanProgress tracker and the background generation job.    *)
(***************************************************************************)
\* PlanProgress(...) as generate_project_plan constructs it
TotalSteps == 7
\* the id the store gives the project saved by the materialization
NewProjectId == "project_1"
NoError == <<"none", 0>>
NoPlan == [k \in {} |-> "none"]

NoProgress ==
    [exists |-> FALSE, status |-> "none", current_step |-> "none",
     step_number |-> 0, total_steps |-> 0, error_message |-> NoError,
     result |-> NoPlan, project_id |-> "none",
     task_id |-> 0, user_id |-> Str(NoUser)]

\* the authenticated user of the followed request and the uuid4 it draws
Caller == Oid(1)
JobTaskId == 1

\* mutant: the tracker is saved with the model's default total_steps
NewTracker_default_total(task_id, user_id) ==
    [NoProgress EXCEPT !.exists = TRUE, !.status = "pending",
                       !.current_step = "starting", !.step_number = 0,
                       !.total_steps = 6,
                       !.task_id = task_id, !.user_id = user_id]

\* PlanProgress(task_id=..., user_id=str(current_user.id), status='pending',
\* current_step='starting', step_number=0, total_steps=7)
NewTracker(task_id, user_id) ==
    [NoProgress EXCEPT !.exists = TRUE, !.status = "pending",
                       !.current_step = "starting", !.step_number = 0,
                       !.total_steps = TotalSteps,
                       !.task_id = task_id, !.user_id = user_id]

\* PlanProgress.update_progress: overwrite label, number and status; save
update_progress(p, step, step_number, status) ==
    [p EXCEPT !.current_step = step, !.step_number = step_number,
              !.status = status]

\* PlanProgress.complete
complete(p, result, project_id) ==
    [p EXCEPT !.status = "completed", !.current_step = "completed",
              !.step_number = p.total_steps, !.result = result,
              !.project_id = project_id]

\* mutant: failing also rewinds the step counter
fail_resets_step(p, error) ==
    [p EXCEPT !.status = "failed", !.error_message = error, !.step_number = 0]

\* PlanProgress.fail
fail(p, error) ==
    [p EXCEPT !.status = "failed", !.error_message = error]

\* the stages of the graph in edge order, the step number each one reports
\* and the label it writes
Stages == 2..7
StageLabel(k) ==
    CASE k = 2 -> "Generating high-level plan"
      [] k = 3 -> "Generating technical architecture"
      [] k = 4 -> "Generating API endpoints"
      [] k = 5 -> "Generating data models"
      [] k = 6 -> "Generating UI components"
      [] k = 7 -> "Generating implementation plan"

\* which generator of a stage's chain is the gemini one
StageGemini(k) ==
    IF k \in {2, 3} THEN <<FALSE, TRUE, FALSE, FALSE>>
                    ELSE <<FALSE, FALSE, FALSE, TRUE>>

StageChains(k) ==
    {[i \in 1..4 |-> [gemini |-> StageGemini(k)[i], out |-> o[i]]] :
        o \in [1..4 -> Outs]}

\* generate_technical_architecture reads the attributes of the high-level
\* plan without a guard; the later stages guard every read with
\* try/except (AttributeError, TypeError).
PrepareRaises(k) == k = 3 /\ plan[2] = "empty"

\* the keyword arguments generate_plan_background passes to
\* create_or_update_project_from_plan, and the parameters without a default
\* that the function declares
SuppliedArgs == {"project_data", "current_user"}
RequiredArgs == {"project_data", "current_user", "input_data"}
MissingArgs == RequiredArgs \ SuppliedArgs

At(where, k) == [at |-> where, stage |-> k]

(***************************************************************************)
(* The rate limit of POST /plan/generate-plan, kept on the User document.  *)
(***************************************************************************)
\* the clock advances in ticks; this many ticks make a clock hour
TicksPerHour == 2
\* the clock hours the model follows
MaxHours == 7
\* User.can_generate_plan: the lifetime and the hourly allowance
TotalLimit == 30
HourlyLimit == 5

\* datetime.replace(minute=0, second=0, microsecond=0)
HourStart(t) == (t \div TicksPerHour) * TicksPerHour
\* int((next_hour - current_time).total_seconds() / 60)
MinutesRemaining(t) ==
    ((HourStart(t) + TicksPerHour - t) * 60) \div TicksPerHour

\* the document of a user created at time t
NewUser(t) ==
    [total_plan_generations |-> 0, plan_generations_this_hour |-> 0,
     current_hour_start |-> t]

\* the hourly counter as the two methods refresh it at time t
RefreshHour(u, t) ==
    IF u.current_hour_start < HourStart(t)
    THEN [u EXCEPT !.plan_generations_this_hour = 0,
                   !.current_hour_start = HourStart(t)]
    ELSE u

\* mutant: the hourly counter is never reset
can_generate_plan_no_reset(u, t) ==
    IF u.total_plan_generations >= TotalLimit
    THEN [ok |-> FALSE, msg |-> <<"total limit", TotalLimit>>, user |-> u]
    ELSE IF u.plan_generations_this_hour >= HourlyLimit
         THEN [ok |-> FALSE,
               msg |-> <<"hourly limit", MinutesRemaining(t)>>, user |-> u]
         ELSE [ok |-> TRUE, msg |-> <<"", 0>>, user |-> u]

\* User.can_generate_plan at time t: the verdict, the message and the
\* document as the method leaves it (the refreshed counter is saved)
can_generate_plan(u, t) ==
    IF u.total_plan_generations >= TotalLimit
    THEN [ok |-> FALSE, msg |-> <<"total limit", TotalLimit>>, user |-> u]
    ELSE LET r == RefreshHour(u, t)
         IN IF r.plan_generations_this_hour >= HourlyLimit
            THEN [ok |-> FALSE,
                  msg |-> <<"hourly limit", MinutesRemaining(t)>>,
                  user |-> r]
            ELSE [ok |-> TRUE, msg |-> <<"", 0>>, user |-> r]

\* User.record_plan_generation at time t
record_plan_generation(u, t) ==
    LET r == RefreshHour(u, t)
    IN [r EXCEPT !.total_plan_generations = @ + 1,
                 !.plan_generations_this_hour = @ + 1]

\* the accepted requests as the clock counts them at time t
LedgerAt(l, t) ==
    IF l.hour = t \div TicksPerHour THEN l
    ELSE [l EXCEPT !.hour = t \div TicksPerHour, !.this_hour = 0]

NoReq ==
    [code |-> 0, detail |-> <<"", 0>>, started |-> FALSE, llm_calls |-> 0,
     prior_total |-> 0, prior_hour |-> 0, task_id |-> 0]

\* the response of the handler: the HTTPException(429) is raised inside the
\* try block whose "except Exception" turns every exception into
\* HTTPException(500, "Failed to start plan generation: " + str(e))
PlanResponse(c) ==
    IF c.ok
    THEN [code |-> 200, detail |-> <<"started", 0>>]
    ELSE [code |-> 500,
          detail |-> <<"Failed to start plan generation", c.msg>>]

\* POST /plan/generate-plan.  An accepted request records the generation,
\* saves the tracker and queues the background task.  The job of the
\* request is followed when pc is "idle"; with pc at "none" only the
\* responses are.
generate_project_plan ==
    /\ pc \in {At("idle", 0), At("none", 0)}
    /\ LET c == can_generate_plan(user, now)
           l == LedgerAt(ledger, now)
       IN /\ user' = IF c.ok THEN record_plan_generation(c.user, now)
                             ELSE c.user
          /\ lastReq' = [code |-> PlanResponse(c).code,
                         detail |-> PlanResponse(c).detail,
                         started |-> c.ok, llm_calls |-> 0,
                         prior_total |-> l.total,
                         prior_hour |-> l.this_hour,
                         task_id |-> IF c.ok THEN JobTaskId ELSE 0]
          /\ ledger' = IF c.ok
                       THEN [l EXCEPT !.total = @ + 1, !.this_hour = @ + 1]
                       ELSE l
          /\ IF c.ok /\ pc = At("idle", 0)
             THEN /\ progress' = NewTracker(JobTaskId, Str(Caller))
                  /\ pc' = At("queued", 0)
             ELSE UNCHANGED <<progress, pc>>
    /\ UNCHANGED <<kind, siblings, lastOp, plan, lastExc, chain, outcome,
                   now, laterVars>>

\* time passes
Tick ==
    /\ now < MaxHours * TicksPerHour
    /\ now' = now + 1
    /\ UNCHANGED <<orderVars, jobVars, execVars, user, ledger, lastReq,
                   laterVars>>

\* generate_plan_background up to the call of generate_plan
BgInitialize ==
    /\ pc = At("queued", 0)
    /\ progress' = update_progress(progress, "Initializing plan generation",
                                   1, "processing")
    /\ pc' = At("enter", 2)
    /\ UNCHANGED <<kind, siblings, lastOp, plan, lastExc, chain, outcome, extVars>>

\* mutant: the stage goes to its generation call without reporting
StageEnter_silent(k) ==
    /\ pc = At("enter", k)
    /\ pc' = At("await", k)
    /\ UNCHANGED <<kind, siblings, lastOp, plan, lastExc, chain, outcome,
                   progress, extVars>>

\* a stage function up to its generation call: it reports its step number
StageEnter(k) ==
    /\ pc = At("enter", k)
    /\ progress' = update_progress(progress, StageLabel(k), k, "processing")
    /\ pc' = At("await", k)
    /\ UNCHANGED <<kind, siblings, lastOp, plan, lastExc, chain, outcome, extVars>>

\* except Exception as e: progress.fail(str(e))
Caught(origin, k, msg) ==
    /\ progress' = fail(progress, msg)
    /\ lastExc' = [origin |-> origin, stage |-> k, msg |-> msg,
                   before |-> progress]
    /\ pc' = At("done", 0)

\* mutant: a failed stage is recorded and the pipeline goes on
StageFinish_resumes(k) ==
    /\ pc = At("await", k)
    /\ \E ch \in StageChains(k) :
          LET r == execute_with_fallbacks(ch)
          IN /\ chain' = ch
             /\ outcome' = r
             /\ plan' = (k :> (IF r.state = "returned" THEN r.value ELSE "empty"))
                           @@ plan
             /\ pc' = IF k < 7 THEN At("enter", k + 1) ELSE At("creating", 0)
             /\ IF r.state = "returned"
                THEN UNCHANGED <<progress, lastExc>>
                ELSE /\ progress' = fail(progress, <<r.error, r.error_by>>)
                     /\ lastExc' = [origin |-> "stage", stage |-> k,
                                    msg |-> <<r.error, r.error_by>>,
                                    before |-> progress]
    /\ UNCHANGED <<kind, siblings, lastOp, extVars>>

\* the rest of a stage function: the prompt is built, the executor runs the
\* stage's chain, and the result is merged into the graph state; an
\* exception leaves graph.ainvoke and is caught by generate_plan_background
StageFinish(k) ==
    /\ pc = At("await", k)
    /\ IF PrepareRaises(k)
       THEN /\ Caught("stage", k, <<"AttributeError", 0>>)
            /\ UNCHANGED <<plan, chain, outcome>>
       ELSE \E ch \in StageChains(k) :
              LET r == execute_with_fallbacks(ch)
              IN /\ chain' = ch
                 /\ outcome' = r
                 /\ IF r.state = "returned"
                    THEN /\ plan' = (k :> r.value) @@ plan
                         /\ pc' = IF k < 7 THEN At("enter", k + 1)
                                           ELSE At("creating", 0)
                         /\ UNCHANGED <<progress, lastExc>>
                    ELSE /\ Caught("stage", k, <<r.error, r.error_by>>)
                         /\ UNCHANGED plan
    /\ UNCHANGED <<kind, siblings, lastOp, extVars>>

generate_high_level_plan == StageEnter(2) \/ StageFinish(2)
generate_technical_architecture == StageEnter(3) \/ StageFinish(3)
generate_api_endpoints == StageEnter(4) \/ StageFinish(4)
generate_data_models == StageEnter(5) \/ StageFinish(5)
generate_ui_components == StageEnter(6) \/ StageFinish(6)
generate_implementation_plan == StageEnter(7) \/ StageFinish(7)

\* generate_plan has returned: progress.update_progress("Creating project", 6)
BgCreatingProject ==
    /\ pc = At("creating", 0)
    /\ progress' = update_progress(progress, "Creating project", 6, "processing")
    /\ pc' = At("materialize", 0)
    /\ UNCHANGED <<kind, siblings, lastOp, plan, lastExc, chain, outcome, extVars>>

\* project_id = await create_or_update_project_from_plan(project_data=plan,
\* current_user=current_user); progress.complete(plan, project_id).
\* A call that leaves a required parameter unbound raises TypeError before
\* the function body runs; otherwise the body persists the project (or
\* fails and raises "Failed to create/update project from plan: ...").
BgMaterialize ==
    /\ pc = At("materialize", 0)
    /\ IF MissingArgs # {}
       THEN Caught("materialize", 0, <<"TypeError: missing argument", 0>>)
       ELSE \E saved \in BOOLEAN :
              IF saved
              THEN /\ progress' = complete(progress, plan, NewProjectId)
                   /\ pc' = At("done", 0)
                   /\ UNCHANGED lastExc
              ELSE Caught("materialize", 0,
                          <<"Failed to create/update project from plan", 0>>)
    /\ UNCHANGED <<kind, siblings, lastOp, plan, chain, outcome, extVars>>

NoExc == [origin |-> "none", stage |-> 0, msg |-> NoError, before |-> NoProgress]

NextJob ==
    \/ generate_project_plan
    \/ BgInitialize
    \/ generate_high_level_plan
    \/ generate_technical_architecture
    \/ generate_api_endpoints
    \/ generate_data_models
    \/ generate_ui_components
    \/ generate_implementation_plan
    \/ BgCreatingProject
    \/ BgMaterialize

(***************************************************************************)
(* Part 4.  The completion cascade of the update handlers (status field).  *)
(***************************************************************************)
\* tasks of the observed milestone, subtasks of its first task
MaxTasks == 2
MaxSubtasks == 2
Tasks == 1..MaxTasks
Subtasks == 1..MaxSubtasks
\* the task the observed subtasks belong to
ParentTask == 1
Statuses == {"not_started", "in_progress", "completed"}
\* an update body carries a status or leaves the field alone
StatusBodies == Statuses \cup {"absent"}

NewTree ==
    [milestone |-> "not_started",
     tasks |-> [t \in Tasks |-> "not_started"],
     subtasks |-> [j \in Subtasks |-> "not_started"]]
NoUpd == [op |-> "none", id |-> 0, body |-> "absent", before |-> NewTree]

\* all(x.status == "completed" for x in ...)
AllCompleted(f) == \A x \in DOMAIN f : f[x] = "completed"

\* the setattr loop followed by save()
Saved(old, body) == IF body = "absent" THEN old ELSE body

\* mutant: the milestone is completed whatever its other tasks are
complete_milestone_always(tr) ==
    [tr EXCEPT !.milestone = "completed"]

\* "if all_completed and milestone.status != 'completed'" of both handlers
complete_milestone_if_done(tr) ==
    IF AllCompleted(tr.tasks) /\ tr.milestone # "completed"
    THEN [tr EXCEPT !.milestone = "completed"]
    ELSE tr

\* update_task on task t
task_status_update(tr, t, body) ==
    LET saved == [tr EXCEPT !.tasks[t] = Saved(@, body)]
    IN IF saved.tasks[t] = "completed"
       THEN complete_milestone_if_done(saved)
       ELSE saved

\* update_subtask on subtask j of ParentTask
subtask_status_update(tr, j, body) ==
    LET saved == [tr EXCEPT !.subtasks[j] = Saved(@, body)]
    IN IF /\ saved.subtasks[j] = "completed"
          /\ AllCompleted(saved.subtasks)
          /\ saved.tasks[ParentTask] # "completed"
       THEN complete_milestone_if_done(
                [saved EXCEPT !.tasks[ParentTask] = "completed"])
       ELSE saved

\* update_milestone: the fields are set and saved, nothing else
milestone_status_update(tr, body) ==
    [tr EXCEPT !.milestone = Saved(@, body)]

StatusUpdate(op, id, body, after) ==
    /\ tree' = after
    /\ lastUpd' = [op |-> op, id |-> id, body |-> body, before |-> tree]
    /\ UNCHANGED <<orderVars, jobVars, execVars, rateVars, breakerVars, wf,
                   sessVars, accessVars, moreVars>>

update_subtask_status ==
    \E j \in Subtasks, body \in StatusBodies :
        StatusUpdate("update_subtask", j, body,
                     subtask_status_update(tree, j, body))

update_task_status ==
    \E t \in Tasks, body \in StatusBodies :
        StatusUpdate("update_task", t, body,
                     task_status_update(tree, t, body))

update_milestone_status ==
    \E body \in StatusBodies :
        StatusUpdate("update_milestone", 0, body,
                     milestone_status_update(tree, body))

NextCascade ==
    update_subtask_status \/ update_task_status \/ update_milestone_status

(***************************************************************************)
(* Part 5.  The circuit breaker of the renderer (GlobalDiagramGenerator).  *)
(***************************************************************************)
\* GlobalDiagramGenerator.__init__
BreakerThreshold == 3
BreakerTimeout == 300
\* the clock advances by this many seconds at a time, up to MaxClock
ClockStep == 150
MaxClock == 900

NewGen ==
    [generator |-> FALSE, initialized |-> FALSE,
     circuit_breaker_failures |-> 0, circuit_breaker_reset_time |-> 0]

\* what the environment does to one renderer call: how the connection of
\* _initialize ends (when it is made), whether the session is alive when
\* the worker looks, and how the worker's script ends
InitOutcomes == {"connected", "refused", "timeout"}
WorkOutcomes == {"ok", "invalid", "session error", "timeout"}
CallOutcomes ==
    [init : InitOutcomes, alive : BOOLEAN, work : WorkOutcomes]

\* mutant: the breaker never rejects
is_circuit_open_never(g, t) ==
    [open |-> FALSE, gen |-> g]

\* mutant: the cooldown ends without clearing the failure count
is_circuit_open_keeps_count(g, t) ==
    [open |-> g.circuit_breaker_failures >= BreakerThreshold
              /\ t < g.circuit_breaker_reset_time,
     gen |-> g]

\* _is_circuit_open at time t: the answer and the singleton afterwards
is_circuit_open(g, t) ==
    IF g.circuit_breaker_failures >= BreakerThreshold
    THEN IF t < g.circuit_breaker_reset_time
         THEN [open |-> TRUE, gen |-> g]
         ELSE [open |-> FALSE,
               gen |-> [g EXCEPT !.circuit_breaker_failures = 0,
                                 !.circuit_breaker_reset_time = 0]]
    ELSE [open |-> FALSE, gen |-> g]

\* _record_failure at time t
record_failure(g, t) ==
    LET n == g.circuit_breaker_failures + 1
    IN [g EXCEPT !.circuit_breaker_failures = n,
                 !.circuit_breaker_reset_time =
                     IF n >= BreakerThreshold THEN t + BreakerTimeout ELSE @]

\* _record_success
record_success(g) ==
    [g EXCEPT !.circuit_breaker_failures = 0,
              !.circuit_breaker_reset_time = 0]

\* _initialize: one connection attempt; a failure is recorded and raised
initialize(g, t, init) ==
    IF init = "connected"
    THEN [ok |-> TRUE, connects |-> 1,
          gen |-> record_success([g EXCEPT !.generator = TRUE,
                                           !.initialized = TRUE])]
    ELSE [ok |-> FALSE, connects |-> 1,
          gen |-> record_failure([g EXCEPT !.generator = FALSE,
                                           !.initialized = FALSE], t)]

\* get_generator: raises when the breaker is open or the connection fails
get_generator(g, t, init) ==
    LET c == is_circuit_open(g, t)
    IN IF c.open THEN [ok |-> FALSE, connects |-> 0, gen |-> c.gen]
       ELSE IF ~c.gen.initialized THEN initialize(c.gen, t, init)
            ELSE [ok |-> TRUE, connects |-> 0, gen |-> c.gen]

\* the worker (validate_diagram_source / generate_svg) on the session: it
\* reconnects when the session is not alive and never raises
WorkerConnects(o) == IF o.alive THEN 0 ELSE 1

\* what a call reports: rejected by the open breaker, the session used or
\* not, the connection attempts made, the value returned or the exception
CallResult(g, rejected, invoked, connects, ok, raised, msg) ==
    [gen |-> g, rejected |-> rejected, session_invoked |-> invoked,
     connects |-> connects, ok |-> ok, raised |-> raised, msg |-> msg]

\* validate_diagram_threadsafe at time t under the environment's choice o
validate_diagram_threadsafe(g, t, o) ==
    LET c == is_circuit_open(g, t)
        gg == get_generator(c.gen, t, o.init)
    IN IF c.open
       THEN CallResult(c.gen, TRUE, FALSE, 0, FALSE, FALSE,
                       "temporarily unavailable")
       ELSE IF ~gg.ok
       THEN \* except Exception: one more failure; reconnect if a generator
            \* is left
            CallResult(record_failure(gg.gen, t), FALSE, FALSE,
                       gg.connects + (IF gg.gen.generator THEN 1 ELSE 0),
                       FALSE, FALSE, "validation failed")
       ELSE CASE o.work = "ok" ->
                 CallResult(record_success(gg.gen), FALSE, TRUE,
                            gg.connects + WorkerConnects(o),
                            TRUE, FALSE, "")
              [] o.work = "timeout" ->
                 CallResult(record_failure(gg.gen, t), FALSE, TRUE,
                            gg.connects + WorkerConnects(o),
                            FALSE, FALSE, "timed out")
              [] OTHER ->
                 CallResult(record_failure(gg.gen, t), FALSE, TRUE,
                            gg.connects + WorkerConnects(o),
                            FALSE, FALSE, o.work)

\* generate_svg_threadsafe: as above, but the open breaker, the failed
\* connection and the timeout are raised, and a failed render returns None
generate_svg_threadsafe(g, t, o) ==
    LET c == is_circuit_open(g, t)
        gg == get_generator(c.gen, t, o.init)
    IN IF c.open
       THEN CallResult(c.gen, TRUE, FALSE, 0, FALSE, TRUE,
                       "temporarily unavailable")
       ELSE IF ~gg.ok
       THEN CallResult(record_failure(gg.gen, t), FALSE, FALSE,
                       gg.connects + (IF gg.gen.generator THEN 1 ELSE 0),
                       FALSE, TRUE, "generation failed")
       ELSE CASE o.work = "ok" ->
                 CallResult(record_success(gg.gen), FALSE, TRUE,
                            gg.connects + WorkerConnects(o),
                            TRUE, FALSE, "")
              [] o.work = "timeout" ->
                 CallResult(record_failure(gg.gen, t), FALSE, TRUE,
                            gg.connects + WorkerConnects(o),
                            FALSE, TRUE, "timed out")
              [] OTHER ->
                 CallResult(record_failure(gg.gen, t), FALSE, TRUE,
                            gg.connects + WorkerConnects(o),
                            FALSE, FALSE, "None")

\* the observer: seconds since the breaker opened (-1 when it is not open)
SinceOpen == IF watch.opened_at < 0 THEN 0 - 1 ELSE clock - watch.opened_at
\* the observer's bookkeeping once the singleton is g2: a call that ran
\* makes the run of failed calls longer or ends it, a reset of the breaker
\* ends it, a rejected call leaves it alone
Observe(g2, ran, ok) ==
    [streak |->
        IF ran THEN (IF ok THEN 0
                     ELSE IF SinceOpen >= BreakerTimeout THEN 1
                     ELSE watch.streak + 1)
        ELSE IF g2.circuit_breaker_failures = 0 THEN 0 ELSE watch.streak,
     opened_at |->
        IF g2.circuit_breaker_failures >= BreakerThreshold
        THEN (IF watch.opened_at < 0 \/ SinceOpen >= BreakerTimeout
              THEN clock ELSE watch.opened_at)
        ELSE 0 - 1]

NoCall ==
    [fn |-> "none", since_open |-> 0 - 1, failures_before |-> 0,
     rejected |-> FALSE, session_invoked |-> FALSE, connects |-> 0,
     ok |-> FALSE, raised |-> FALSE, msg |-> "", work |-> "none"]

\* one renderer call and what the observer notes of it
RendererCall(fn, r, o) ==
    /\ gen' = r.gen
    /\ watch' = Observe(r.gen, ~r.rejected, r.ok)
    /\ lastCall' = [fn |-> fn, since_open |-> SinceOpen,
                    failures_before |-> gen.circuit_breaker_failures,
                    rejected |-> r.rejected,
                    session_invoked |-> r.session_invoked,
                    connects |-> r.connects, ok |-> r.ok,
                    raised |-> r.raised, msg |-> r.msg,
                    work |-> IF r.session_invoked THEN o.work ELSE "none"]
    /\ UNCHANGED clock

ValidateCall ==
    \E o \in CallOutcomes :
        /\ RendererCall("validate",
                        validate_diagram_threadsafe(gen, clock, o), o)
        /\ UNCHANGED <<orderVars, jobVars, execVars, rateVars, treeVars, wf,
                     sessVars, accessVars, moreVars>>

RenderCall ==
    \E o \in CallOutcomes :
        /\ RendererCall("generate_svg",
                        generate_svg_threadsafe(gen, clock, o), o)
        /\ UNCHANGED <<orderVars, jobVars, execVars, rateVars, treeVars, wf,
                     sessVars, accessVars, moreVars>>

\* GET /diagrams/status asks _is_circuit_open, which may reset the breaker
diagram_service_status ==
    /\ gen' = is_circuit_open(gen, clock).gen
    /\ watch' = Observe(gen', FALSE, FALSE)
    /\ UNCHANGED <<clock, lastCall>>
    /\ UNCHANGED <<orderVars, jobVars, execVars, rateVars, treeVars, wf,
                     sessVars, accessVars, moreVars>>

\* time passes
Wait ==
    /\ clock + ClockStep <= MaxClock
    /\ clock' = clock + ClockStep
    /\ UNCHANGED <<gen, watch, lastCall>>
    /\ UNCHANGED <<orderVars, jobVars, execVars, rateVars, treeVars, wf,
                     sessVars, accessVars, moreVars>>

NextBreaker ==
    ValidateCall \/ RenderCall \/ diagram_service_status \/ Wait

(***************************************************************************)
(* Part 6.  The sequence-diagram workflow (generate_sequence_diagram).     *)
(***************************************************************************)
\* max_iterations: int = 3
MaxIterations == 3
\* how a generation call of the workflow ends: the executor returns text
\* that parses (or not), raises, or exceeds the timeout of wait_for
JsonOutcomes == {"json", "not json", "raise", "timeout"}
CodeOutcomes == {"code", "raise", "timeout"}

NoWfError == <<"none", 0, "">>
\* the workflow before it is called with max_iterations = n
NewWorkflow(n) ==
    [pc |-> "idle", max_iterations |-> n, iteration |-> 0, feedback |-> "",
     success |-> FALSE, error |-> NoWfError]

\* mutant: a failed workflow returns without an error
Return_no_error(w) ==
    [w EXCEPT !.pc = "returned"]

\* "if not result['success']: result['error'] = ..." and "return result"
Return(w) ==
    [w EXCEPT !.pc = "returned",
              !.error = IF w.success THEN NoWfError
                        ELSE <<"Failed to generate a valid diagram",
                               w.iteration, w.feedback>>]

\* "while json_iteration < max_iterations: json_iteration += 1"
Loop(w) ==
    IF w.iteration < w.max_iterations
    THEN [w EXCEPT !.iteration = @ + 1, !.pc = "llm json"]
    ELSE Return(w)

\* an iteration ends with feedback for the next one
Retry(w, fb) == Loop([w EXCEPT !.feedback = fb])
\* result['success'] = True; break
Succeed(w) == Return([w EXCEPT !.success = TRUE])

WfStep(w) ==
    /\ wf' = w
    /\ UNCHANGED <<orderVars, jobVars, execVars, rateVars, treeVars, sessVars,
                   accessVars, moreVars>>

\* the call of generate_sequence_diagram up to the first iteration
generate_sequence_diagram ==
    /\ wf.pc = "idle"
    /\ WfStep(Loop(wf))
    /\ UNCHANGED breakerVars

\* Step 1: the JSON description through execute_llm_with_fallbacks
WfJson ==
    /\ wf.pc = "llm json"
    /\ \E o \in JsonOutcomes :
          WfStep(CASE o = "json" -> [wf EXCEPT !.pc = "convert"]
                   [] o = "not json" -> Retry(wf, "Invalid JSON format")
                   [] o = "timeout" -> Retry(wf, "LLM request timed out")
                   [] o = "raise" -> Retry(wf, "An error occurred"))
    /\ UNCHANGED breakerVars

\* Step 2: json_to_sequence_diagram_code, which may raise
WfConvert ==
    /\ wf.pc = "convert"
    /\ \E ok \in BOOLEAN :
          WfStep(IF ok THEN [wf EXCEPT !.pc = "validate"]
                 ELSE Retry(wf, "Error converting JSON to diagram code"))
    /\ UNCHANGED breakerVars

\* validation of the converted source, and of the source the generator wrote
WfValidate ==
    /\ wf.pc \in {"validate", "validate again"}
    /\ \E o \in CallOutcomes :
          LET r == validate_diagram_threadsafe(gen, clock, o)
          IN /\ RendererCall("validate", r, o)
             /\ WfStep(IF r.ok
                       THEN [wf EXCEPT !.pc = IF @ = "validate"
                                              THEN "render"
                                              ELSE "render again"]
                       ELSE IF wf.pc = "validate"
                       THEN [wf EXCEPT !.pc = "llm code"]
                       ELSE Retry(wf, "there are syntax errors"))

\* rendering of a valid source; an exception of the renderer call is
\* caught by the "except Exception" around the conversion
WfRender ==
    /\ wf.pc \in {"render", "render again"}
    /\ \E o \in CallOutcomes :
          LET r == generate_svg_threadsafe(gen, clock, o)
          IN /\ RendererCall("generate_svg", r, o)
             /\ WfStep(IF r.raised
                       THEN Retry(wf, "Error converting JSON to diagram code")
                       ELSE IF r.ok THEN Succeed(wf)
                       ELSE Retry(wf, "SVG generation failed"))

\* the generator is asked to convert the JSON itself
WfCode ==
    /\ wf.pc = "llm code"
    /\ \E o \in CodeOutcomes :
          WfStep(IF o = "code" THEN [wf EXCEPT !.pc = "validate again"]
                 ELSE Retry(wf, "Error converting JSON to diagram code"))
    /\ UNCHANGED breakerVars

WorkflowStep ==
    \/ generate_sequence_diagram \/ WfJson \/ WfConvert
    \/ WfValidate \/ WfRender \/ WfCode

NextWorkflow == WorkflowStep \/ Wait

(***************************************************************************)
(* Part 7.  Concurrent requests on the one browser session.  The event     *)
(* loop runs a coroutine up to its next await in one step; the work on     *)
(* the session runs in threads started by asyncio.to_thread.               *)
(***************************************************************************)
\* requests in flight at once, renderer calls each of them makes
MaxRequests == 2
MaxCalls == 2
Requests == 1..MaxRequests

NewRequest == [pc |-> "idle", calls |-> 0]

\* a step of request r on the singleton; nothing else is touched
SessStep(r, p, g, n) ==
    /\ req' = [req EXCEPT ![r] = p]
    /\ gen' = g
    /\ running' = n
    /\ UNCHANGED <<clock, watch, lastCall>>
    /\ UNCHANGED <<orderVars, jobVars, execVars, rateVars, treeVars, wf,
                   accessVars, moreVars>>

\* asyncio.to_thread(generator.validate_diagram_source / generate_svg):
\* the worker starts at once; nothing holds it back while another runs
StartWorker(r, g) ==
    SessStep(r, [req[r] EXCEPT !.pc = "working"], g, running + 1)

\* a *_threadsafe call up to its first await: the breaker is asked, then
\* either the connection of _initialize or the worker is started
CallEnter(r) ==
    /\ req[r].pc = "idle" /\ req[r].calls < MaxCalls
    /\ LET c == is_circuit_open(gen, clock)
       IN IF c.open
          THEN SessStep(r, [req[r] EXCEPT !.calls = @ + 1], c.gen, running)
          ELSE IF ~c.gen.initialized
          THEN SessStep(r, [req[r] EXCEPT !.pc = "connecting"],
                        [c.gen EXCEPT !.generator = TRUE], running)
          ELSE StartWorker(r, c.gen)

\* the connection of _initialize ends: the call goes on to its worker, or
\* the failure is recorded by _initialize and again by the caller
ConnectDone(r) ==
    /\ req[r].pc = "connecting"
    /\ \E init \in InitOutcomes :
          LET i == initialize(gen, clock, init)
          IN IF i.ok
             THEN StartWorker(r, i.gen)
             ELSE SessStep(r, [pc |-> "idle", calls |-> req[r].calls + 1],
                           record_failure(i.gen, clock), running)

\* the worker returns before the timeout of wait_for
WorkerDone(r) ==
    /\ req[r].pc = "working"
    /\ \E w \in WorkOutcomes \ {"timeout"} :
          SessStep(r, [pc |-> "idle", calls |-> req[r].calls + 1],
                   IF w = "ok" THEN record_success(gen)
                   ELSE record_failure(gen, clock),
                   running - 1)

\* wait_for gives up: the call ends, the thread cannot be cancelled and
\* keeps running
CallTimeout(r) ==
    /\ req[r].pc = "working"
    /\ SessStep(r, [pc |-> "idle", calls |-> req[r].calls + 1],
                record_failure(gen, clock), running)

\* a thread left behind by a timed-out call ends
WorkerExit ==
    /\ running > Cardinality({r \in Requests : req[r].pc = "working"})
    /\ running' = running - 1
    /\ UNCHANGED <<req, gen, clock, watch, lastCall>>
    /\ UNCHANGED <<orderVars, jobVars, execVars, rateVars, treeVars, wf,
                   accessVars, moreVars>>

NextSession ==
    \/ \E r \in Requests :
          CallEnter(r) \/ ConnectDone(r) \/ WorkerDone(r) \/ CallTimeout(r)
    \/ WorkerExit

(***************************************************************************)
(* Part 8.  Access control of the routes that address one project.         *)
(***************************************************************************)
\* users known to the system; user 1 owns the observed project
MaxUsers == 3

UserIds == {Oid(n) : n \in 1..MaxUsers}
OwnerId == Oid(1)

\* the routes of each endpoint module that take a project id
ProjectRoutes ==
    {"get_project", "get_complete_project", "update_project",
     "delete_project"}
MilestoneRoutes ==
    {"list_milestones", "create_milestone", "update_milestone",
     "delete_milestone"}
TaskRoutes == {"list_tasks", "create_task", "update_task", "delete_task"}
SubtaskRoutes ==
    {"list_subtasks", "get_subtask", "create_subtask", "update_subtask",
     "delete_subtask"}
DiagramReadRoutes ==
    {"get_sequence_diagram", "get_class_diagram", "get_activity_diagram"}
DiagramWriteRoutes ==
    {"create_sequence_diagram", "update_sequence_diagram",
     "create_class_diagram", "update_class_diagram",
     "create_activity_diagram", "update_activity_diagram"}
ContextRoutes ==
    {"generate_context", "get_latest_context", "update_context_notes",
     "get_context_notes"}

ReadRoutes ==
    {"get_project", "get_complete_project", "list_milestones", "list_tasks",
     "list_subtasks", "get_subtask", "get_latest_context",
     "get_context_notes"} \cup DiagramReadRoutes
\* routes whose response is made by a generator, which may fail
GeneratingRoutes == DiagramWriteRoutes \cup {"generate_context"}
\* routes whose only handler, "except Exception", also catches their own
\* HTTPException(404)
SwallowingRoutes ==
    {"create_class_diagram", "update_class_diagram",
     "create_activity_diagram", "update_activity_diagram"}

\* "project.owner_id.id != current_user.id" (write routes of the tree)
OwnerOnly(p, u) == p.owner_id = u
\* "... and current_user.id not in [str(c.id) for c in collaborator_ids]"
OwnerOrStrCollaborators(p, u) ==
    p.owner_id = u \/ u \in {Str(c) : c \in p.collaborator_ids}
\* "... and current_user.id not in [collab.id for collab in ...]"
OwnerOrCollaborators(p, u) ==
    p.owner_id = u \/ u \in p.collaborator_ids
\* get_structured_project compares strings with strings
StrOwnerOrStrCollaborators(p, u) ==
    Str(p.owner_id) = Str(u)
    \/ Str(u) \in {Str(c) : c \in p.collaborator_ids}

\* the access check each handler makes
Allowed(route, p, u) ==
    CASE route \in DiagramWriteRoutes -> TRUE
      [] route \in DiagramReadRoutes \cup ContextRoutes
            -> OwnerOrCollaborators(p, u)
      [] route = "get_complete_project"
            -> StrOwnerOrStrCollaborators(p, u)
      [] route \in {"get_project", "list_milestones", "list_tasks",
                    "list_subtasks", "get_subtask"}
            -> OwnerOrStrCollaborators(p, u)
      [] OTHER -> OwnerOnly(p, u)

NoAcc ==
    [user |-> NoUser, route |-> "none", code |-> 0, existed |-> FALSE,
     disclosed |-> FALSE, changed |-> FALSE]

\* the create routes of the tree answer 201 Created
SuccessCode(route) ==
    IF route \in {"create_milestone", "create_task", "create_subtask"}
    THEN 201 ELSE 200

\* user u calls route; generated tells whether the generator of a
\* generating route delivered
Serve(u, route, generated) ==
    LET code == IF ~project.exists
                THEN (IF route \in SwallowingRoutes THEN 500 ELSE 404)
                ELSE IF ~Allowed(route, project, u) THEN 403
                ELSE IF route \in GeneratingRoutes /\ ~generated THEN 500
                ELSE SuccessCode(route)
        served == code = SuccessCode(route)
    IN /\ lastAcc' = [user |-> u, route |-> route, code |-> code,
                      existed |-> project.exists,
                      disclosed |-> served /\ route \in
                                       ReadRoutes \cup GeneratingRoutes,
                      changed |-> served /\ route \notin ReadRoutes]
       /\ project' = IF served /\ route \notin ReadRoutes
                     THEN [project EXCEPT
                              !.exists = route # "delete_project",
                              !.last_writer = u]
                     ELSE project
       /\ UNCHANGED <<orderVars, jobVars, execVars, rateVars, treeVars,
                      breakerVars, wf, sessVars, moreVars>>

ProjectRoute ==
    \E u \in UserIds, route \in ProjectRoutes : Serve(u, route, TRUE)
MilestoneRoute ==
    \E u \in UserIds, route \in MilestoneRoutes : Serve(u, route, TRUE)
TaskRoute ==
    \E u \in UserIds, route \in TaskRoutes : Serve(u, route, TRUE)
SubtaskRoute ==
    \E u \in UserIds, route \in SubtaskRoutes : Serve(u, route, TRUE)
DiagramRoute ==
    \E u \in UserIds, route \in DiagramReadRoutes \cup DiagramWriteRoutes,
       generated \in BOOLEAN : Serve(u, route, generated)
ContextRoute ==
    \E u \in UserIds, route \in ContextRoutes, generated \in BOOLEAN :
        Serve(u, route, generated)

NextAccess ==
    \/ ProjectRoute \/ MilestoneRoute \/ TaskRoute \/ SubtaskRoute
    \/ DiagramRoute \/ ContextRoute

(***************************************************************************)
(* Part 9.  GET /plan/status/{task_id}: lookups in the tracker collection. *)
(***************************************************************************)
\* the task ids issued so far are among 1..MaxTaskIds; 0 was never issued
MaxTaskIds == 2
TaskIds == 1..MaxTaskIds
NoTrackers == [t \in TaskIds |-> NoProgress]

\* the fields of a tracker that the status response carries
StatusBody(p) ==
    [task_id |-> p.task_id, status |-> p.status,
     current_step |-> p.current_step, step_number |-> p.step_number,
     total_steps |-> p.total_steps, error_message |-> p.error_message,
     project_id |-> p.project_id,
     result |-> IF p.status = "completed" THEN p.result ELSE NoPlan]

TaskNotFound ==
    [code |-> 404, detail |-> "Task not found", body |-> StatusBody(NoProgress)]

\* mutant: the query filters by task_id only
StatusResponse_by_task_only(store, t, u) ==
    LET found == {id \in DOMAIN store :
                     store[id].exists /\ store[id].task_id = t}
    IN IF found = {} THEN TaskNotFound
       ELSE [code |-> 200, detail |-> "",
             body |-> StatusBody(store[CHOOSE id \in found : TRUE])]

\* PlanProgress.objects(task_id=task_id, user_id=str(current_user.id))
\* .first(), then 404 or the fields of the tracker
StatusResponse(store, t, u) ==
    LET found == {id \in DOMAIN store :
                     /\ store[id].exists
                     /\ store[id].task_id = t
                     /\ store[id].user_id = Str(u)}
    IN IF found = {} THEN TaskNotFound
       ELSE [code |-> 200, detail |-> "",
             body |-> StatusBody(store[CHOOSE id \in found : TRUE])]

NoLookup ==
    [user |-> NoUser, task_id |-> 0, existed |-> FALSE,
     owner |-> Str(NoUser), response |-> TaskNotFound, asked |-> FALSE]

\* generate_project_plan of any user saves a tracker under a fresh uuid4
SaveTracker ==
    /\ \E u \in UserIds, t \in TaskIds :
          /\ ~trackers[t].exists
          /\ trackers' = [trackers EXCEPT ![t] = NewTracker(t, Str(u))]
    /\ UNCHANGED <<orderVars, jobVars, execVars, rateVars, treeVars,
                   breakerVars, wf, sessVars, accessVars, lastLookup,
                   matVars, raceVars>>

\* the writes of generate_plan_background on its tracker: the first
\* update_progress, then complete or fail
JobWrite ==
    /\ \E t \in TaskIds :
          LET p == trackers[t]
          IN /\ p.exists
             /\ \/ /\ p.status = "pending"
                   /\ trackers' = [trackers EXCEPT ![t] =
                          update_progress(p, "Initializing plan generation",
                                          1, "processing")]
                \/ /\ p.status = "processing"
                   /\ \/ trackers' = [trackers EXCEPT ![t] =
                             fail(p, <<"error", 0>>)]
                      \/ trackers' = [trackers EXCEPT ![t] =
                             complete(p, [k \in Stages |-> "valid"],
                                      NewProjectId)]
    /\ UNCHANGED <<orderVars, jobVars, execVars, rateVars, treeVars,
                   breakerVars, wf, sessVars, accessVars, lastLookup,
                   matVars, raceVars>>

\* any user asks for any task id, issued or not
get_plan_status ==
    /\ \E u \in UserIds, t \in 0..MaxTaskIds :
          lastLookup' =
              [user |-> u, task_id |-> t,
               existed |-> t \in TaskIds /\ trackers[t].exists,
               owner |-> IF t \in TaskIds THEN trackers[t].user_id
                                          ELSE Str(NoUser),
               response |-> StatusResponse(trackers, t, u), asked |-> TRUE]
    /\ UNCHANGED <<orderVars, jobVars, execVars, rateVars, treeVars,
                   breakerVars, wf, sessVars, accessVars, trackers,
                   matVars, raceVars>>

NextStatus == SaveTracker \/ JobWrite \/ get_plan_status

(***************************************************************************)
(* Part 10.  create_or_update_project_from_plan (creation of a new         *)
(* project).  The plan is read entry by entry as the loops reach it.       *)
(***************************************************************************)
\* the milestones and the tasks (over all milestones) of the plans followed
MaxPlanMilestones == 2
MaxPlanTasks == 2

\* task names: the plan names its tasks distinctly; Name(0) names no task
Name(i) == [task_name |-> i]
\* a task of the plan depends on nothing or on one name: of a task of the
\* plan, earlier or later, or of no task at all
DependencyLists == {{}} \cup {{Name(i)} : i \in 0..MaxPlanTasks}

\* input_data as the caller passes it: not at all, as the request model
\* PlanGenerationInput (which has no .get), or as a dict
InputKinds == {"missing", "model", "dict"}
\* project_data["implementation_plan"]: a list of milestone dicts, or the
\* dump of DetailedImplementationPlan, a dict with the key "milestones"
PlanShapes == {"list", "dump"}

EmptyDb == [project |-> FALSE, milestones |-> {}, tasks |-> {}, subtasks |-> {}]
NotCalled ==
    [pc |-> "idle", saved |-> FALSE, nms |-> 0, open |-> FALSE,
     tasks |-> <<>>, error |-> <<"none", "none">>, deleted |-> <<>>]

Range(f) == {f[i] : i \in DOMAIN f}
\* tasks_dict of the milestone at hand: the tasks created under it, by name
tasks_dict(m) == {i \in DOMAIN m.tasks : m.tasks[i].ms = m.nms}
RECURSIVE SeqOf(_)
\* a set of numbers as the ascending sequence a query returns
SeqOf(S) ==
    IF S = {} THEN <<>>
    ELSE LET x == CHOOSE y \in S : \A z \in S : y <= z
         IN <<x>> \o SeqOf(S \ {x})
RECURSIVE CleanLog(_, _)
\* the delete queries of clean_project_data for the milestones in ms
CleanLog(m, ms) ==
    IF ms = <<>> THEN <<>>
    ELSE [i \in 1..Cardinality({t \in DOMAIN m.tasks : m.tasks[t].ms = ms[1]})
             |-> "subtasks"]
         \o <<"tasks">> \o CleanLog(m, Tail(ms))

\* mutant: the cleanup deletes tasks and milestones and leaves the subtasks
clean_project_data_no_subtasks(m, d) ==
    [db |-> [d EXCEPT !.milestones = {}, !.tasks = {}],
     log |-> CleanLog(m, SeqOf(d.milestones)) \o <<"milestones">>]

\* clean_project_data: for every milestone of the project, the subtasks of
\* each of its tasks and then its tasks; then the milestones
clean_project_data(m, d) ==
    [db |-> [d EXCEPT !.milestones = {}, !.tasks = {}, !.subtasks = {}],
     log |-> CleanLog(m, SeqOf(d.milestones)) \o <<"milestones">>]

\* except Exception as e: clean up when a project object is bound, then
\* raise Exception("Failed to create/update project from plan: " + str(e))
Except(m, d, e, bound) ==
    LET c == clean_project_data(m, d)
    IN /\ mat' = [m EXCEPT
                     !.pc = "raised",
                     !.error = <<"Failed to create/update project from plan",
                                 e>>,
                     !.deleted = IF bound THEN c.log \o <<"project">>
                                          ELSE <<>>]
       /\ db' = IF bound THEN [c.db EXCEPT !.project = FALSE] ELSE d

MatStep(m, d) ==
    /\ mat' = m
    /\ db' = d

MatUnchanged ==
    UNCHANGED <<orderVars, jobVars, execVars, rateVars, treeVars,
                breakerVars, wf, sessVars, accessVars, statusVars,
                raceVars>>

\* the call, up to the first project.save()
create_or_update_project_from_plan ==
    /\ mat.pc = "idle"
    /\ \E input \in InputKinds, shape \in PlanShapes, raises \in BOOLEAN :
          CASE input = "missing" ->
                  \* the call itself raises; the body never runs
                  MatStep([mat EXCEPT !.pc = "raised",
                              !.error = <<"TypeError: missing argument",
                                          "input_data">>], db)
            [] input = "model" ->
                  \* input_data.get raises before a project object is bound
                  Except(mat, db, "AttributeError", FALSE)
            [] input = "dict" ->
                  IF raises THEN Except(mat, db, "save failed", TRUE)
                  ELSE IF shape = "dump"
                  \* enumerate() yields the key "milestones", a str
                  THEN Except([mat EXCEPT !.saved = TRUE],
                              [db EXCEPT !.project = TRUE],
                              "AttributeError", TRUE)
                  ELSE MatStep([mat EXCEPT !.pc = "milestones",
                                           !.saved = TRUE],
                               [db EXCEPT !.project = TRUE])
    /\ MatUnchanged

\* the next milestone of the plan: Milestone(..., order=i).save(), and a
\* new tasks_dict
MatSaveMilestone ==
    /\ mat.pc = "milestones" /\ ~mat.open
    /\ mat.nms < MaxPlanMilestones
    /\ \E raises \in BOOLEAN :
          IF raises THEN Except(mat, db, "save failed", TRUE)
          ELSE MatStep([mat EXCEPT !.nms = @ + 1, !.open = TRUE],
                       [db EXCEPT !.milestones = @ \cup {mat.nms + 1}])
    /\ MatUnchanged

\* the next task of the milestone: Task(..., order=j).save();
\* tasks_dict[name] = task
MatSaveTask ==
    /\ mat.pc = "milestones" /\ mat.open
    /\ Len(mat.tasks) < MaxPlanTasks
    /\ \E deps \in DependencyLists, raises \in BOOLEAN :
          LET id == Len(mat.tasks) + 1
              task == [ms |-> mat.nms, name |-> Name(id), deps |-> deps,
                       dependency_ids |-> {}]
          IN IF raises THEN Except(mat, db, "save failed", TRUE)
             ELSE MatStep([mat EXCEPT !.tasks = Append(@, task)],
                          [db EXCEPT !.tasks = @ \cup {id}])
    /\ MatUnchanged

\* a subtask of the task just created: Subtask(task_id=task.id, ...).save()
MatSaveSubtask ==
    /\ mat.pc = "milestones" /\ mat.open
    /\ Len(mat.tasks) > 0
    /\ mat.tasks[Len(mat.tasks)].ms = mat.nms
    /\ Len(mat.tasks) \notin db.subtasks
    /\ \E raises \in BOOLEAN :
          IF raises THEN Except(mat, db, "save failed", TRUE)
          ELSE MatStep(mat, [db EXCEPT !.subtasks = @ \cup {Len(mat.tasks)}])
    /\ MatUnchanged

\* the ids tasks_dict gives for the dependency names of task i
Resolved(m, i) ==
    {j \in tasks_dict(m) : m.tasks[j].name \in m.tasks[i].deps}

\* "Set up task dependencies after all tasks are created": the second
\* loop over the tasks of the milestone at hand
MatResolve ==
    /\ mat.pc = "milestones" /\ mat.open
    /\ \E raises \in BOOLEAN :
          IF raises
          THEN /\ \E i \in tasks_dict(mat) : Resolved(mat, i) # {}
               /\ Except(mat, db, "save failed", TRUE)
          ELSE MatStep([mat EXCEPT
                           !.open = FALSE,
                           !.tasks = [i \in DOMAIN mat.tasks |->
                               IF i \in tasks_dict(mat)
                                  /\ Resolved(mat, i) # {}
                               THEN [mat.tasks[i] EXCEPT
                                        !.dependency_ids = Resolved(mat, i)]
                               ELSE mat.tasks[i]]], db)
    /\ MatUnchanged

\* return project_id
MatReturn ==
    /\ mat.pc = "milestones" /\ ~mat.open
    /\ MatStep([mat EXCEPT !.pc = "returned"], db)
    /\ MatUnchanged

NextMaterialize ==
    \/ create_or_update_project_from_plan
    \/ MatSaveMilestone \/ MatSaveTask \/ MatSaveSubtask
    \/ MatResolve \/ MatReturn

(***************************************************************************)
(* Part 11.  Two generate-plan requests of one user at the same time.      *)
(*                                                                         *)
(* A request loads its own User object (get_current_user), checks it       *)
(* (can_generate_plan) and increments and saves it                         *)
(* (record_plan_generation).  None of the three awaits anything, so inside *)
(* one event loop a request runs from its load to its save without         *)
(* another request in between; requests served by different server         *)
(* processes interleave freely.                                            *)
(***************************************************************************)
RaceRequests == {1, 2}
NotSent ==
    [pc |-> "idle", local |-> NewUser(0), seen |-> NewUser(0), code |-> 0]

\* mutant: the save adds the request's increments to the stored counters
save_increments(doc, before, after) ==
    [doc EXCEPT
        !.total_plan_generations =
            @ + after.total_plan_generations - before.total_plan_generations,
        !.plan_generations_this_hour =
            @ + after.plan_generations_this_hour
              - before.plan_generations_this_hour,
        !.current_hour_start = after.current_hour_start]

\* Document.save() of a loaded document: the fields assigned a new value
\* since the load are written as they are in the object
save(doc, before, after) ==
    [f \in DOMAIN doc |-> IF after[f] # before[f] THEN after[f] ELSE doc[f]]

RaceStep(r, new, doc) ==
    /\ rq' = [rq EXCEPT ![r] = new]
    /\ stored' = doc
    /\ UNCHANGED <<orderVars, jobVars, execVars, rateVars, treeVars,
                   breakerVars, wf, sessVars, accessVars, statusVars,
                   matVars, workers>>

\* get_current_user: User.objects(id=user_id).first()
get_current_user ==
    \E r \in RaceRequests :
        /\ rq[r].pc = "idle"
        /\ workers = 1 =>
              \A q \in RaceRequests : rq[q].pc \in {"idle", "done"}
        /\ RaceStep(r, [rq[r] EXCEPT !.pc = "loaded", !.local = stored,
                                     !.seen = stored], stored)

\* generate_project_plan up to the verdict of can_generate_plan
RaceCheck ==
    \E r \in RaceRequests :
        /\ rq[r].pc = "loaded"
        /\ LET c == can_generate_plan(rq[r].local, now)
           IN RaceStep(r, [rq[r] EXCEPT
                              !.pc = IF c.ok THEN "checked" ELSE "done",
                              !.local = c.user,
                              !.code = PlanResponse(c).code],
                       save(stored, rq[r].local, c.user))

\* generate_project_plan from record_plan_generation to its return
RaceRecord ==
    \E r \in RaceRequests :
        /\ rq[r].pc = "checked"
        /\ LET u == record_plan_generation(rq[r].local, now)
           IN RaceStep(r, [rq[r] EXCEPT !.pc = "done", !.local = u,
                                        !.code = 200],
                       save(stored, rq[r].local, u))

NextRace == get_current_user \/ RaceCheck \/ RaceRecord

(***************************************************************************)
(* Specifications: one per part; the other parts stay idle.                *)
(***************************************************************************)
NextExec == RunPlanExecutor \/ RunDiagramExecutor

\* the executor is handed any chain of generators; nothing else happens
InitExec ==
    /\ user = NewUser(0) /\ now = 0
    /\ ledger = [total |-> 0, hour |-> 0, this_hour |-> 0] /\ lastReq = NoReq
    /\ chain \in Chains
    /\ outcome = NotRun
    /\ kind = "milestone" /\ siblings = <<>> /\ lastOp = NoOp
    /\ progress = NoProgress /\ pc = At("none", 0)
    /\ plan = NoPlan /\ lastExc = NoExc
    /\ tree = NewTree /\ lastUpd = NoUpd
    /\ gen = NewGen /\ clock = 0
    /\ watch = [streak |-> 0, opened_at |-> 0 - 1] /\ lastCall = NoCall
    /\ wf = NewWorkflow(MaxIterations)
    /\ req = [r \in Requests |-> NewRequest] /\ running = 0
    /\ project = [exists |-> FALSE, owner_id |-> OwnerId,
                  collaborator_ids |-> {}, last_writer |-> NoUser]
    /\ lastAcc = NoAcc
    /\ trackers = NoTrackers /\ lastLookup = NoLookup
    /\ mat = NotCalled /\ db = EmptyDb
    /\ stored = NewUser(0) /\ workers = 1
    /\ rq = [r \in RaceRequests |-> NotSent]

SpecExec == InitExec /\ [][NextExec]_vars

\* one generate-plan request and its background job
InitJob ==
    /\ user = NewUser(0) /\ now = 0
    /\ ledger = [total |-> 0, hour |-> 0, this_hour |-> 0] /\ lastReq = NoReq
    /\ progress = NoProgress /\ pc = At("idle", 0)
    /\ plan = NoPlan /\ lastExc = NoExc
    /\ kind = "milestone" /\ siblings = <<>> /\ lastOp = NoOp
    /\ chain = <<>> /\ outcome = NotRun
    /\ tree = NewTree /\ lastUpd = NoUpd
    /\ gen = NewGen /\ clock = 0
    /\ watch = [streak |-> 0, opened_at |-> 0 - 1] /\ lastCall = NoCall
    /\ wf = NewWorkflow(MaxIterations)
    /\ req = [r \in Requests |-> NewRequest] /\ running = 0
    /\ project = [exists |-> FALSE, owner_id |-> OwnerId,
                  collaborator_ids |-> {}, last_writer |-> NoUser]
    /\ lastAcc = NoAcc
    /\ trackers = NoTrackers /\ lastLookup = NoLookup
    /\ mat = NotCalled /\ db = EmptyDb
    /\ stored = NewUser(0) /\ workers = 1
    /\ rq = [r \in RaceRequests |-> NotSent]

SpecJob == InitJob /\ [][NextJob]_vars

NextOrder ==
    \/ create_milestone \/ update_milestone \/ delete_milestone
    \/ create_task \/ update_task \/ delete_task
    \/ create_subtask \/ update_subtask \/ delete_subtask

\* CRUD requests on the children of a freshly created parent, whose
\* collection is empty
InitOrder ==
    /\ user = NewUser(0) /\ now = 0
    /\ ledger = [total |-> 0, hour |-> 0, this_hour |-> 0] /\ lastReq = NoReq
    /\ kind \in Kinds /\ siblings = <<>> /\ lastOp = NoOp
    /\ progress = NoProgress /\ pc = At("none", 0)
    /\ plan = NoPlan /\ lastExc = NoExc
    /\ chain = <<>> /\ outcome = NotRun
    /\ tree = NewTree /\ lastUpd = NoUpd
    /\ gen = NewGen /\ clock = 0
    /\ watch = [streak |-> 0, opened_at |-> 0 - 1] /\ lastCall = NoCall
    /\ wf = NewWorkflow(MaxIterations)
    /\ req = [r \in Requests |-> NewRequest] /\ running = 0
    /\ project = [exists |-> FALSE, owner_id |-> OwnerId,
                  collaborator_ids |-> {}, last_writer |-> NoUser]
    /\ lastAcc = NoAcc
    /\ trackers = NoTrackers /\ lastLookup = NoLookup
    /\ mat = NotCalled /\ db = EmptyDb
    /\ stored = NewUser(0) /\ workers = 1
    /\ rq = [r \in RaceRequests |-> NotSent]

SpecOrder == InitOrder /\ [][NextOrder]_vars

NextRate == generate_project_plan \/ Tick

\* a user created at some moment of the first clock hour sends
\* generate-plan requests one after another while time passes
InitRate ==
    /\ now \in 0..(TicksPerHour - 1)
    /\ user = NewUser(now)
    /\ ledger = [total |-> 0, hour |-> 0, this_hour |-> 0] /\ lastReq = NoReq
    /\ progress = NoProgress /\ pc = At("none", 0)
    /\ plan = NoPlan /\ lastExc = NoExc
    /\ kind = "milestone" /\ siblings = <<>> /\ lastOp = NoOp
    /\ chain = <<>> /\ outcome = NotRun
    /\ tree = NewTree /\ lastUpd = NoUpd
    /\ gen = NewGen /\ clock = 0
    /\ watch = [streak |-> 0, opened_at |-> 0 - 1] /\ lastCall = NoCall
    /\ wf = NewWorkflow(MaxIterations)
    /\ req = [r \in Requests |-> NewRequest] /\ running = 0
    /\ project = [exists |-> FALSE, owner_id |-> OwnerId,
                  collaborator_ids |-> {}, last_writer |-> NoUser]
    /\ lastAcc = NoAcc
    /\ trackers = NoTrackers /\ lastLookup = NoLookup
    /\ mat = NotCalled /\ db = EmptyDb
    /\ stored = NewUser(0) /\ workers = 1
    /\ rq = [r \in RaceRequests |-> NotSent]

SpecRate == InitRate /\ [][NextRate]_vars

\* status updates by the owner on a freshly created milestone
InitCascade ==
    /\ tree = NewTree /\ lastUpd = NoUpd
    /\ user = NewUser(0) /\ now = 0
    /\ ledger = [total |-> 0, hour |-> 0, this_hour |-> 0] /\ lastReq = NoReq
    /\ progress = NoProgress /\ pc = At("none", 0)
    /\ plan = NoPlan /\ lastExc = NoExc
    /\ kind = "milestone" /\ siblings = <<>> /\ lastOp = NoOp
    /\ chain = <<>> /\ outcome = NotRun
    /\ gen = NewGen /\ clock = 0
    /\ watch = [streak |-> 0, opened_at |-> 0 - 1] /\ lastCall = NoCall
    /\ wf = NewWorkflow(MaxIterations)
    /\ req = [r \in Requests |-> NewRequest] /\ running = 0
    /\ project = [exists |-> FALSE, owner_id |-> OwnerId,
                  collaborator_ids |-> {}, last_writer |-> NoUser]
    /\ lastAcc = NoAcc
    /\ trackers = NoTrackers /\ lastLookup = NoLookup
    /\ mat = NotCalled /\ db = EmptyDb
    /\ stored = NewUser(0) /\ workers = 1
    /\ rq = [r \in RaceRequests |-> NotSent]

SpecCascade == InitCascade /\ [][NextCascade]_vars

\* renderer calls one after another on the singleton of a fresh process
InitBreaker ==
    /\ gen = NewGen /\ clock = 0
    /\ watch = [streak |-> 0, opened_at |-> 0 - 1] /\ lastCall = NoCall
    /\ tree = NewTree /\ lastUpd = NoUpd
    /\ user = NewUser(0) /\ now = 0
    /\ ledger = [total |-> 0, hour |-> 0, this_hour |-> 0] /\ lastReq = NoReq
    /\ progress = NoProgress /\ pc = At("none", 0)
    /\ plan = NoPlan /\ lastExc = NoExc
    /\ kind = "milestone" /\ siblings = <<>> /\ lastOp = NoOp
    /\ chain = <<>> /\ outcome = NotRun
    /\ wf = NewWorkflow(MaxIterations)
    /\ req = [r \in Requests |-> NewRequest] /\ running = 0
    /\ project = [exists |-> FALSE, owner_id |-> OwnerId,
                  collaborator_ids |-> {}, last_writer |-> NoUser]
    /\ lastAcc = NoAcc
    /\ trackers = NoTrackers /\ lastLookup = NoLookup
    /\ mat = NotCalled /\ db = EmptyDb
    /\ stored = NewUser(0) /\ workers = 1
    /\ rq = [r \in RaceRequests |-> NotSent]

SpecBreaker == InitBreaker /\ [][NextBreaker]_vars

\* one call of the workflow on the singleton of a fresh process; the event
\* loop keeps running the coroutine, so a step that can be taken is taken
InitWorkflow ==
    /\ gen = NewGen /\ clock = 0
    /\ watch = [streak |-> 0, opened_at |-> 0 - 1] /\ lastCall = NoCall
    /\ tree = NewTree /\ lastUpd = NoUpd
    /\ user = NewUser(0) /\ now = 0
    /\ ledger = [total |-> 0, hour |-> 0, this_hour |-> 0] /\ lastReq = NoReq
    /\ progress = NoProgress /\ pc = At("none", 0)
    /\ plan = NoPlan /\ lastExc = NoExc
    /\ kind = "milestone" /\ siblings = <<>> /\ lastOp = NoOp
    /\ chain = <<>> /\ outcome = NotRun
    /\ wf \in {NewWorkflow(n) : n \in 0..MaxIterations}
    /\ req = [r \in Requests |-> NewRequest] /\ running = 0
    /\ project = [exists |-> FALSE, owner_id |-> OwnerId,
                  collaborator_ids |-> {}, last_writer |-> NoUser]
    /\ lastAcc = NoAcc
    /\ trackers = NoTrackers /\ lastLookup = NoLookup
    /\ mat = NotCalled /\ db = EmptyDb
    /\ stored = NewUser(0) /\ workers = 1
    /\ rq = [r \in RaceRequests |-> NotSent]

SpecWorkflow ==
    InitWorkflow /\ [][NextWorkflow]_vars /\ WF_vars(WorkflowStep)

\* diagram requests served at the same time by a fresh process
InitSession ==
    /\ gen = NewGen /\ clock = 0
    /\ watch = [streak |-> 0, opened_at |-> 0 - 1] /\ lastCall = NoCall
    /\ tree = NewTree /\ lastUpd = NoUpd
    /\ user = NewUser(0) /\ now = 0
    /\ ledger = [total |-> 0, hour |-> 0, this_hour |-> 0] /\ lastReq = NoReq
    /\ progress = NoProgress /\ pc = At("none", 0)
    /\ plan = NoPlan /\ lastExc = NoExc
    /\ kind = "milestone" /\ siblings = <<>> /\ lastOp = NoOp
    /\ chain = <<>> /\ outcome = NotRun
    /\ wf = NewWorkflow(MaxIterations)
    /\ req = [r \in Requests |-> NewRequest] /\ running = 0
    /\ project = [exists |-> FALSE, owner_id |-> OwnerId,
                  collaborator_ids |-> {}, last_writer |-> NoUser]
    /\ lastAcc = NoAcc
    /\ trackers = NoTrackers /\ lastLookup = NoLookup
    /\ mat = NotCalled /\ db = EmptyDb
    /\ stored = NewUser(0) /\ workers = 1
    /\ rq = [r \in RaceRequests |-> NotSent]

SpecSession == InitSession /\ [][NextSession]_vars

\* a project of user 1, with any of the other users as collaborators and
\* with its diagrams stored; every user calls every route
InitAccess ==
    /\ gen = NewGen /\ clock = 0
    /\ watch = [streak |-> 0, opened_at |-> 0 - 1] /\ lastCall = NoCall
    /\ tree = NewTree /\ lastUpd = NoUpd
    /\ user = NewUser(0) /\ now = 0
    /\ ledger = [total |-> 0, hour |-> 0, this_hour |-> 0] /\ lastReq = NoReq
    /\ progress = NoProgress /\ pc = At("none", 0)
    /\ plan = NoPlan /\ lastExc = NoExc
    /\ kind = "milestone" /\ siblings = <<>> /\ lastOp = NoOp
    /\ chain = <<>> /\ outcome = NotRun
    /\ wf = NewWorkflow(MaxIterations)
    /\ req = [r \in Requests |-> NewRequest] /\ running = 0
    /\ project \in {[exists |-> TRUE, owner_id |-> OwnerId,
                     collaborator_ids |-> cs, last_writer |-> OwnerId] :
                        cs \in SUBSET (UserIds \ {OwnerId})}
    /\ lastAcc = NoAcc
    /\ trackers = NoTrackers /\ lastLookup = NoLookup
    /\ mat = NotCalled /\ db = EmptyDb
    /\ stored = NewUser(0) /\ workers = 1
    /\ rq = [r \in RaceRequests |-> NotSent]

SpecAccess == InitAccess /\ [][NextAccess]_vars

\* an empty tracker collection; users start jobs and poll task ids
InitStatus ==
    /\ gen = NewGen /\ clock = 0
    /\ watch = [streak |-> 0, opened_at |-> 0 - 1] /\ lastCall = NoCall
    /\ tree = NewTree /\ lastUpd = NoUpd
    /\ user = NewUser(0) /\ now = 0
    /\ ledger = [total |-> 0, hour |-> 0, this_hour |-> 0] /\ lastReq = NoReq
    /\ progress = NoProgress /\ pc = At("none", 0)
    /\ plan = NoPlan /\ lastExc = NoExc
    /\ kind = "milestone" /\ siblings = <<>> /\ lastOp = NoOp
    /\ chain = <<>> /\ outcome = NotRun
    /\ wf = NewWorkflow(MaxIterations)
    /\ req = [r \in Requests |-> NewRequest] /\ running = 0
    /\ project = [exists |-> FALSE, owner_id |-> OwnerId,
                  collaborator_ids |-> {}, last_writer |-> NoUser]
    /\ lastAcc = NoAcc
    /\ trackers = NoTrackers /\ lastLookup = NoLookup
    /\ mat = NotCalled /\ db = EmptyDb
    /\ stored = NewUser(0) /\ workers = 1
    /\ rq = [r \in RaceRequests |-> NotSent]

SpecStatus == InitStatus /\ [][NextStatus]_vars

\* nothing of the project is persisted; the function is called once
InitMaterialize ==
    /\ gen = NewGen /\ clock = 0
    /\ watch = [streak |-> 0, opened_at |-> 0 - 1] /\ lastCall = NoCall
    /\ tree = NewTree /\ lastUpd = NoUpd
    /\ user = NewUser(0) /\ now = 0
    /\ ledger = [total |-> 0, hour |-> 0, this_hour |-> 0] /\ lastReq = NoReq
    /\ progress = NoProgress /\ pc = At("none", 0)
    /\ plan = NoPlan /\ lastExc = NoExc
    /\ kind = "milestone" /\ siblings = <<>> /\ lastOp = NoOp
    /\ chain = <<>> /\ outcome = NotRun
    /\ wf = NewWorkflow(MaxIterations)
    /\ req = [r \in Requests |-> NewRequest] /\ running = 0
    /\ project = [exists |-> FALSE, owner_id |-> OwnerId,
                  collaborator_ids |-> {}, last_writer |-> NoUser]
    /\ lastAcc = NoAcc
    /\ trackers = NoTrackers /\ lastLookup = NoLookup
    /\ mat = NotCalled /\ db = EmptyDb
    /\ stored = NewUser(0) /\ workers = 1
    /\ rq = [r \in RaceRequests |-> NotSent]

SpecMaterialize == InitMaterialize /\ [][NextMaterialize]_vars

\* the user has any counters near the limits; the two requests arrive in
\* the clock hour of the stored current_hour_start, at one server process
\* or at two
InitRace ==
    /\ gen = NewGen /\ clock = 0
    /\ watch = [streak |-> 0, opened_at |-> 0 - 1] /\ lastCall = NoCall
    /\ tree = NewTree /\ lastUpd = NoUpd
    /\ user = NewUser(0) /\ now = 0
    /\ ledger = [total |-> 0, hour |-> 0, this_hour |-> 0] /\ lastReq = NoReq
    /\ progress = NoProgress /\ pc = At("none", 0)
    /\ plan = NoPlan /\ lastExc = NoExc
    /\ kind = "milestone" /\ siblings = <<>> /\ lastOp = NoOp
    /\ chain = <<>> /\ outcome = NotRun
    /\ wf = NewWorkflow(MaxIterations)
    /\ req = [r \in Requests |-> NewRequest] /\ running = 0
    /\ project = [exists |-> FALSE, owner_id |-> OwnerId,
                  collaborator_ids |-> {}, last_writer |-> NoUser]
    /\ lastAcc = NoAcc
    /\ trackers = NoTrackers /\ lastLookup = NoLookup
    /\ mat = NotCalled /\ db = EmptyDb
    /\ stored \in {u \in [total_plan_generations :
                             (HourlyLimit - 2)..HourlyLimit
                                 \cup (TotalLimit - 2)..TotalLimit,
                         plan_generations_this_hour :
                             {0} \cup (HourlyLimit - 2)..HourlyLimit,
                         current_hour_start : {0}] :
                      u.total_plan_generations >= u.plan_generations_this_hour}
    /\ workers \in {1, 2}
    /\ rq = [r \in RaceRequests |-> NotSent]

SpecRace == InitRace /\ [][NextRace]_vars

(***************************************************************************)
(* Claims about the order field.                                           *)
(***************************************************************************)
Clamp(x, lo, hi) == IF x < lo THEN lo ELSE IF x > hi THEN hi ELSE x

\* C1: after any sequence of create / update-with-order / delete requests
\* the order values of the siblings are exactly {0, ..., count-1}, without
\* duplicates and without gaps.
C1_DenseOrders ==
    /\ Orders(siblings) = 0..(Cardinality(DOMAIN siblings) - 1)
    /\ \A i, j \in DOMAIN siblings : i # j => siblings[i] # siblings[j]

\* C2: a create request that carries position P succeeds, places the new
\* entity at T = clamp(P, 0, M+1), shifts every earlier sibling with
\* order >= T up by one and leaves the others alone.
C2_InsertAtPosition ==
    (lastOp.op = "create" /\ lastOp.body.has_order) =>
        LET before == lastOp.before
            T == Clamp(lastOp.body.order, 0, max_order(before))
        IN /\ lastOp.code = 201
           /\ DOMAIN siblings = DOMAIN before \cup {lastOp.id}
           /\ siblings[lastOp.id] = T
           /\ \A j \in DOMAIN before :
                 siblings[j] = IF before[j] >= T THEN before[j] + 1
                               ELSE before[j]

\* C3: deleting the entity that had order O decrements the order of every
\* remaining sibling whose order was greater than O and leaves the siblings
\* below O unchanged.
C3_DeleteClosesGap ==
    (lastOp.op = "delete" /\ lastOp.code = 200) =>
        LET before == lastOp.before
            O == before[lastOp.id]
        IN /\ DOMAIN siblings = DOMAIN before \ {lastOp.id}
           /\ \A j \in DOMAIN siblings :
                 siblings[j] = IF before[j] > O THEN before[j] - 1
                               ELSE before[j]

(***************************************************************************)
(* Claims about the fallback-chain executor.                               *)
(***************************************************************************)
Ran == outcome.state # "idle"

\* generator i failed in a way the executor notices: its call raised, or
\* (primary of execute_with_fallbacks only) it returned an empty result
Failed(i) ==
    \/ chain[i].out = "raise"
    \/ i = 1 /\ outcome.fn = "execute_with_fallbacks" /\ chain[i].out = "empty"

AllFailed == \A i \in DOMAIN chain : Failed(i)

CalledInChainOrder(n) ==
    /\ Len(outcome.calls) = n
    /\ \A i \in 1..n : outcome.calls[i].gen = i

C9_NeverEmpty ==
    (Ran /\ outcome.fn = "execute_with_fallbacks"
         /\ outcome.state = "returned") =>
        /\ outcome.value = "valid"
        /\ chain[outcome.by].out = "valid"
        /\ \A j \in 1..(outcome.by - 1) : chain[j].out # "valid"

\* C10 as stated: when every generator has failed the error raised is the
\* terminal "all options exhausted" error, never one generator's own error.
C10_ExhaustedError ==
    (Ran /\ AllFailed) =>
        /\ outcome.state = "raised"
        /\ outcome.error = "All models failed"

\* C10 (amended): when every generator has failed the executor raises; the
\* error is the terminal "All models failed" error only for an empty
\* fallback list, otherwise it is the last fallback's own error, re-raised.
C10_LastErrorReraised ==
    (Ran /\ AllFailed) =>
        /\ outcome.state = "raised"
        /\ Len(chain) = 1 => /\ outcome.error = "All models failed"
                             /\ outcome.error_by = 0
        /\ Len(chain) > 1 => /\ outcome.error = "generator_error"
                             /\ outcome.error_by = Len(chain)

C10_Witness ==
    /\ Ran /\ AllFailed
    /\ Len(chain) = 3
    /\ outcome.error = "generator_error"
    /\ outcome.error_by = 3

(***************************************************************************)
(* Claims about the tracker and the background job.                        *)
(***************************************************************************)
Terminal(p) == p.exists /\ p.status \in {"completed", "failed"}

StatusSteps ==
    {<<"none", "pending">>, <<"pending", "processing">>,
     <<"processing", "completed">>, <<"processing", "failed">>}

JobDone == pc = At("done", 0)

\* C4: once the tracker is completed or failed no step of the job changes
\* any of its fields, and its status only ever moves pending -> processing
\* -> completed or pending -> processing -> failed.
C4_TerminalAbsorbing ==
    [][/\ Terminal(progress) => progress' = progress
       /\ progress'.status # progress.status =>
             <<progress.status, progress'.status>> \in StatusSteps]_vars

C4_Witness ==
    /\ JobDone
    /\ progress.status = "failed"
    /\ lastExc.before.status = "processing"

AllStagesValid ==
    /\ DOMAIN plan = Stages
    /\ \A k \in Stages : plan[k] = "valid"

\* C5: when every stage returned a valid output and persistence did not
\* fail, the job ends with the tracker completed, step_number = total_steps,
\* result = the generated plan and project_id = the new project's id.
C5_CompletesOnSuccess ==
    (/\ JobDone
     /\ AllStagesValid
     /\ lastExc.msg[1] # "Failed to create/update project from plan") =>
        /\ progress.status = "completed"
        /\ progress.step_number = progress.total_steps
        /\ progress.result = plan
        /\ progress.project_id = NewProjectId

\* C6: when a stage or the materialization raises, the job ends with the
\* tracker failed, error_message = the exception's message, and
\* step_number, result and project_id as they were before the failure (the
\* failing stage's own number, or 6 for the materialization).
C6_FailureRecorded ==
    (JobDone /\ lastExc.origin # "none") =>
        /\ progress.status = "failed"
        /\ progress.error_message = lastExc.msg
        /\ progress.step_number = lastExc.before.step_number
        /\ progress.result = lastExc.before.result
        /\ progress.project_id = lastExc.before.project_id
        /\ lastExc.origin = "stage" => progress.step_number = lastExc.stage
        /\ lastExc.origin = "materialize" => progress.step_number = 6

C6_Witness ==
    /\ JobDone
    /\ lastExc.origin = "stage"
    /\ lastExc.stage = 4
    /\ progress.status = "failed"
    /\ progress.step_number = 4

(***************************************************************************)
(* Claims about the rate limit of generate-plan (SpecRate).                *)
(***************************************************************************)
Answered == lastReq.code # 0

\* C11: of requests sent one after another by one user, a generate-plan
\* request is accepted exactly when fewer than 30 requests of the user were
\* accepted before it and fewer than 5 of them in the clock hour it arrives
\* in: the 31st is rejected, the 6th of a clock hour is rejected, and the
\* hourly count starts again at the top of the hour.
C11_AcceptedIffBelowLimits ==
    Answered =>
        (lastReq.started <=>
            (lastReq.prior_total < TotalLimit
             /\ lastReq.prior_hour < HourlyLimit))

\* the 31st request, sent in a clock hour with allowance left, is rejected
C11_Witness ==
    /\ Answered /\ ~lastReq.started
    /\ lastReq.prior_total = TotalLimit
    /\ lastReq.prior_hour < HourlyLimit

\* the detail of a limit rejection
LimitMessages ==
    {<<"total limit", TotalLimit>>} \cup
    {<<"hourly limit", m>> : m \in 0..60}

\* C12: a request over either limit is rejected before any generator call,
\* and the caller receives status 429 whose detail is the limit message
\* (with the minutes to wait for the hourly limit), not a server error.
C12_RejectedWith429 ==
    (Answered /\ ~lastReq.started) =>
        /\ lastReq.llm_calls = 0
        /\ lastReq.code = 429
        /\ lastReq.detail \in LimitMessages

(***************************************************************************)
(* Claims about the completion cascade (SpecCascade).                      *)
(***************************************************************************)
\* the statuses of f at every key but x are all "completed"
OthersCompleted(f, x) == \A y \in DOMAIN f \ {x} : f[y] = "completed"

\* the last request left the subtask / the task it addressed completed
SubtaskMarkedCompleted ==
    lastUpd.op = "update_subtask" /\ tree.subtasks[lastUpd.id] = "completed"
TaskMarkedCompleted ==
    lastUpd.op = "update_task" /\ tree.tasks[lastUpd.id] = "completed"

\* C13: after a subtask is marked completed, its task is completed if no
\* other subtask of the task was incomplete; the milestone is completed if
\* in addition no other task of the milestone was incomplete; and a
\* milestone with another incomplete task keeps its status, whether the
\* task was completed by the cascade or by a direct update.
C13_CompletionCascade ==
    /\ SubtaskMarkedCompleted =>
        LET b == lastUpd.before
            lastSub == OthersCompleted(b.subtasks, lastUpd.id)
            lastTask == OthersCompleted(b.tasks, ParentTask)
        IN /\ lastSub => tree.tasks[ParentTask] = "completed"
           /\ (lastSub /\ b.tasks[ParentTask] # "completed" /\ lastTask)
                  => tree.milestone = "completed"
           /\ ~lastTask => tree.milestone = b.milestone
    /\ TaskMarkedCompleted =>
        (~OthersCompleted(lastUpd.before.tasks, lastUpd.id)
            => tree.milestone = lastUpd.before.milestone)

\* completing the last subtask completed the task and, with it, the milestone
C13_Witness ==
    /\ SubtaskMarkedCompleted
    /\ lastUpd.before.tasks[ParentTask] # "completed"
    /\ lastUpd.before.milestone # "completed"
    /\ tree.tasks[ParentTask] = "completed"
    /\ tree.milestone = "completed"

(***************************************************************************)
(* Claims about the circuit breaker (SpecBreaker).                         *)
(***************************************************************************)
\* the breaker rejects calls at this moment
BreakerOpen ==
    /\ gen.circuit_breaker_failures >= BreakerThreshold
    /\ clock < gen.circuit_breaker_reset_time
\* the last call ran (was not rejected) and failed
CallFailed == lastCall.fn # "none" /\ ~lastCall.rejected /\ ~lastCall.ok

\* C14: the breaker opens exactly when three renderer calls in a row have
\* failed with no success between them: it is never open after fewer than
\* three such calls, each failed call counting once, and a successful call
\* puts the count back to 0.
C14_OpensAtThreeFailures ==
    /\ gen.circuit_breaker_failures >= BreakerThreshold
           => watch.streak >= BreakerThreshold
    /\ watch.streak >= BreakerThreshold
           => gen.circuit_breaker_failures >= BreakerThreshold
    /\ (lastCall.fn # "none" /\ lastCall.ok)
           => gen.circuit_breaker_failures = 0

\* the call arrived less than 300 seconds after the breaker opened
ArrivedWhileOpen ==
    lastCall.fn # "none" /\ lastCall.since_open \in 0..(BreakerTimeout - 1)

\* C15: during the 300 seconds after the breaker opened every validate or
\* render call is rejected at once: the session is not used and no
\* connection is attempted.
C15_OpenRejectsCalls ==
    ArrivedWhileOpen =>
        /\ lastCall.rejected
        /\ ~lastCall.session_invoked
        /\ lastCall.connects = 0

C15_Witness ==
    ArrivedWhileOpen /\ lastCall.rejected /\ lastCall.since_open > 0

\* the call arrived at an opened breaker whose cooldown had elapsed
ArrivedAfterCooldown ==
    lastCall.fn # "none" /\ lastCall.since_open >= BreakerTimeout

\* C16 as stated: after the cooldown the next call is attempted, and if
\* that one retry fails the breaker is open again.
C16_FailedRetryReopens ==
    ArrivedAfterCooldown =>
        /\ ~lastCall.rejected
        /\ (~lastCall.ok => BreakerOpen)

\* C16, amended: after the cooldown the failure count is cleared and the
\* next call is attempted; a failed retry leaves the breaker closed, with
\* a count below the threshold.
C16_CooldownClearsCount ==
    ArrivedAfterCooldown =>
        /\ ~lastCall.rejected
        /\ lastCall.ok => gen.circuit_breaker_failures = 0
        /\ ~lastCall.ok =>
              /\ gen.circuit_breaker_failures \in 1..(BreakerThreshold - 1)
              /\ ~BreakerOpen

\* a retry after the cooldown failed
C16_Witness ==
    ArrivedAfterCooldown /\ CallFailed

(***************************************************************************)
(* Claims about the sequence-diagram workflow (SpecWorkflow).              *)
(***************************************************************************)
WfReturned == wf.pc = "returned"

\* the workflow never runs more iterations than allowed, and what it
\* returns without success carries the last feedback
WfResultSound ==
    /\ wf.iteration <= wf.max_iterations
    /\ (WfReturned /\ ~wf.success) =>
           wf.error = <<"Failed to generate a valid diagram",
                        wf.iteration, wf.feedback>>
    /\ (WfReturned /\ wf.success) => wf.error = NoWfError
    /\ (WfReturned /\ ~wf.success) => wf.iteration = wf.max_iterations

\* C17: the workflow runs at most max_iterations iterations and always
\* ends by returning a result: without success the result has
\* success = false and an error that carries the last feedback, and every
\* exception raised on the way is turned into feedback.
C17_BoundedAndReturns == [](WfResultSound) /\ <>(WfReturned)

\* all three iterations were used and the workflow returned a failure
C17_Witness ==
    /\ WfReturned /\ ~wf.success
    /\ wf.iteration = MaxIterations
    /\ wf.feedback = "SVG generation failed"

(***************************************************************************)
(* Claims about the shared browser session (SpecSession).                  *)
(***************************************************************************)
\* C18: at every moment at most one render or validate operation is
\* executing against the browser session; concurrent requests, and a
\* request whose earlier call timed out while its worker still runs, wait
\* for each other.
C18_OneOperationAtATime == running <= 1

(***************************************************************************)
(* Claims about access control (SpecAccess).                               *)
(***************************************************************************)
\* the last request addressed the existing project and came from ...
FromStranger ==
    /\ lastAcc.existed
    /\ lastAcc.user # project.owner_id
    /\ lastAcc.user \notin project.collaborator_ids
FromCollaborator ==
    /\ lastAcc.existed
    /\ lastAcc.user # project.owner_id
    /\ lastAcc.user \in project.collaborator_ids

\* C19: a user who is neither the owner nor a collaborator gets not-found
\* or forbidden from every read and write route addressing the project or
\* its descendants, and the request neither returns nor changes the
\* project's data.
C19_StrangersShutOut ==
    FromStranger =>
        /\ lastAcc.code \in {403, 404}
        /\ ~lastAcc.disclosed
        /\ ~lastAcc.changed

\* C20: a collaborator who is not the owner is granted access by every
\* read route of the project (detail, complete tree, milestone / task /
\* subtask listings, stored diagrams).
C20_CollaboratorsRead ==
    (FromCollaborator /\ lastAcc.route \in ReadRoutes) =>
        lastAcc.code = 200

(***************************************************************************)
(* Claims about the status lookup (SpecStatus).                            *)
(***************************************************************************)
\* the last lookup asked for a tracker that existed and belonged to
\* somebody else
ForeignLookup ==
    /\ lastLookup.asked
    /\ lastLookup.existed
    /\ lastLookup.owner # Str(lastLookup.user)

\* C21: a lookup for a task_id that exists but belongs to another user gets
\* the very response a lookup for a task_id that does not exist gets: 404
\* "Task not found", never 403 and no field of the other user's tracker.
C21_ForeignLooksAbsent ==
    ForeignLookup =>
        /\ lastLookup.response =
               StatusResponse(NoTrackers, lastLookup.task_id, lastLookup.user)
        /\ lastLookup.response.code = 404
        /\ lastLookup.response.body = StatusBody(NoProgress)

\* a foreign tracker that had already completed was asked for
C21_Witness ==
    /\ ForeignLookup
    /\ trackers[lastLookup.task_id].status = "completed"
    /\ lastLookup.response.code = 404

(***************************************************************************)
(* Further claims about the generation job (SpecJob).                      *)
(***************************************************************************)
\* C22: the stages run one at a time in the order of the graph's edges; a
\* stage starts only when the outputs of all earlier stages (and of no
\* later one) are in the graph state, and it has written its own step
\* number, the successor of the number written before it, by the time it
\* makes its generation call: the numbers appear as 2, 3, 4, 5, 6, 7.
C22_StagesInOrder ==
    pc.at \in {"enter", "await"} =>
        /\ pc.stage \in Stages
        /\ DOMAIN plan = 2..(pc.stage - 1)
        /\ progress.status = "processing"
        /\ progress.step_number =
               IF pc.at = "await" THEN pc.stage ELSE pc.stage - 1
        /\ pc.at = "await" => progress.current_step = StageLabel(pc.stage)

\* the last stage is about to make its generation call
C22_Witness ==
    /\ pc = At("await", 7)
    /\ progress.step_number = 7
    /\ DOMAIN plan = 2..6

\* C23: when the accepted request has returned {task_id, "started"} and
\* the job has not yet run, the tracker of that task_id exists with
\* status pending, step 0 of 7 and the caller as user_id, and no
\* generation call has been made; the job never runs without its tracker.
C23_TrackerBeforeReturn ==
    /\ pc = At("queued", 0) =>
          /\ lastReq.code = 200
          /\ lastReq.detail = <<"started", 0>>
          /\ progress.exists
          /\ progress.task_id = lastReq.task_id
          /\ progress.user_id = Str(Caller)
          /\ progress.status = "pending"
          /\ progress.step_number = 0
          /\ progress.total_steps = 7
          /\ plan = NoPlan /\ outcome = NotRun
    /\ pc.at \notin {"idle", "none"} =>
          /\ progress.exists
          /\ progress.task_id = lastReq.task_id

\* the request has been answered and its job is waiting to run
C23_Witness ==
    /\ pc = At("queued", 0)
    /\ lastReq.started
    /\ progress.status = "pending"

\* C28: the persisted step_number of a job never decreases from one write
\* to the next, so two successive polls see s1 <= s2.
C28_StepNeverDecreases ==
    [][progress.exists => progress'.step_number >= progress.step_number]_vars

(***************************************************************************)
(* A further claim about the order field (SpecOrder).                      *)
(***************************************************************************)
\* the last request moved an entity to the position it already had
MovedToOwnPosition ==
    /\ lastOp.op = "update"
    /\ lastOp.id \in DOMAIN lastOp.before
    /\ lastOp.body.has_order
    /\ lastOp.body.order = lastOp.before[lastOp.id]

\* C26: updating an entity's order to the value it already has leaves the
\* order of that entity and of every sibling unchanged.
C26_MoveToOwnPosition ==
    MovedToOwnPosition => siblings = lastOp.before

\* such a move was served among several siblings, one of them above
C26_Witness ==
    /\ MovedToOwnPosition
    /\ lastOp.code = 200
    /\ \E j \in DOMAIN siblings : siblings[j] > siblings[lastOp.id]

(***************************************************************************)
(* Claims about the materialization of a plan (SpecMaterialize).           *)
(***************************************************************************)
\* C24: when the materialization has returned, the dependency_ids of each
\* task are exactly the ids of the tasks created in this pass, under any
\* milestone, whose names are in the task's dependency list; names of no
\* task are dropped and raise nothing.
C24_DependenciesResolved ==
    mat.pc = "returned" =>
        \A i \in DOMAIN mat.tasks :
            mat.tasks[i].dependency_ids =
                {j \in DOMAIN mat.tasks :
                    mat.tasks[j].name \in mat.tasks[i].deps}

\* the call raised after its project record had been saved
RaisedAfterSave == mat.pc = "raised" /\ mat.saved

OneLeft(u) ==
    /\ u.total_plan_generations < TotalLimit
    /\ u.plan_generations_this_hour < HourlyLimit
    /\ \/ u.plan_generations_this_hour = HourlyLimit - 1
       \/ u.total_plan_generations = TotalLimit - 1
\* both requests are answered and both had loaded the user before either
\* one saved it
BothSawTheSame ==
    /\ \A r \in RaceRequests : rq[r].pc = "done"
    /\ rq[1].seen = rq[2].seen

CompletedMeansAllDone(tr) ==
    tr.milestone = "completed" => AllCompleted(tr.tasks)

\* C29: the task and subtask endpoints keep "a completed milestone has
\* only completed tasks": a request to one of them that finds it true
\* leaves it true, also when it takes a task of a completed milestone back
\* from completed to another status.
C29_CompletedStaysConsistent ==
    [][(/\ lastUpd'.op \in {"update_task", "update_subtask"}
        /\ CompletedMeansAllDone(tree))
           => CompletedMeansAllDone(tree')]_vars

\* C30: a validation call in which the renderer answered and found the
\* source invalid is no failure for the breaker: the failure count is not
\* above what it was when the call arrived, and the breaker is not open.
C30_InvalidSourceNotCounted ==
    (lastCall.fn = "validate" /\ lastCall.work = "invalid") =>
        /\ gen.circuit_breaker_failures <= lastCall.failures_before
        /\ ~BreakerOpen

====
